---- MODULE Spec2Model ----
(***************************************************************************)
(* Store-and-forward (SAF) message handling of the Tari comms DHT:         *)
(* MessageHandlerTask (comms/dht/src/store_forward/saf_handler/task.rs),   *)
(* its message store, deduplication record, peer directory, outbound       *)
(* channel and downstream service; and the inbound message service of the  *)
(* comms layer (comms/src/inbound_message_service), which feeds it; and    *)
(* the latency samples of the liveness service (base_layer/p2p).           *)
(***************************************************************************)
EXTENDS Integers, Sequences, FiniteSets, TLC

VARIABLES
    now,          \* wall clock, in seconds
    store,        \* store[n]: SafStorage of node n, entries in iteration order
    peer_manager, \* peer_manager[n]: the peers known to node n
    signatures,   \* signatures[n]: origin signatures recorded by n's DHT actor
    outbound,     \* outbound[n]: messages node n put on its outbound channel
    next_service, \* next_service[n]: messages handed to n's downstream service
    task,         \* task[t]: the MessageHandlerTask in slot t, or None
    service,      \* the InnerInboundMessageService of the holder, its stream and its sink
    average_latency \* the AverageLatency of one peer in the liveness service's state

vars == <<now, store, peer_manager, signatures, outbound, next_service, task, service,
          average_latency>>

\* Option<T>: the empty set is None, {x} is Some(x)
None == {}
Some(x) == {x}
IsSome(o) == o # {}
Unwrap(o) == CHOOSE x \in o : TRUE

(***************************************************************************)
(* Bounds of the model.                                                    *)
(***************************************************************************)
NumPeers == 4
MaxTime == 1
MaxStore == 2
MaxBatch == 1
MaxResp == 2

Min(a, b) == IF a <= b THEN a ELSE b
Abs(a) == IF a < 0 THEN 0 - a ELSE a

RECURSIVE Pow(_, _, _)
Pow(b, e, m) == IF e = 0 THEN 1 % m ELSE (b * Pow(b, e - 1, m)) % m

(***************************************************************************)
(* Identities. A peer i has node id i; its key pair lives in a small       *)
(* Diffie-Hellman group.                                                   *)
(***************************************************************************)
Peers == 1 .. NumPeers
GroupModulus == 11
GroupGenerator == 2

SecretKey(i) == i
PublicKeyOf(i) == Pow(GroupGenerator, SecretKey(i), GroupModulus)
NodeIdOf(i) == i
PublicKeys == {PublicKeyOf(i) : i \in Peers}
NodeIds == {NodeIdOf(i) : i \in Peers}

\* Peer / NodeIdentity records
Peer(i) == [node_id |-> NodeIdOf(i), public_key |-> PublicKeyOf(i)]
NodeIdentity(i) ==
    [node_id |-> NodeIdOf(i), public_key |-> PublicKeyOf(i), secret_key |-> SecretKey(i)]

\* the two nodes whose handlers run: the holder of stored messages and the
\* node that asks for them
Holder == CHOOSE i \in Peers : \A j \in Peers : i <= j
Receiver == CHOOSE i \in Peers : i # Holder /\ \A j \in Peers \ {Holder} : i <= j
Nodes == {Holder, Receiver}
\* a peer of the network that no node has in its peer directory
Stranger == CHOOSE i \in Peers : \A j \in Peers : j <= i
\* a peer every node knows, the origin of the messages that are stored
Origin == CHOOSE i \in Peers \ (Nodes \cup {Stranger}) : TRUE

(***************************************************************************)
(* Cryptographic envelope services (tari_comms::utils::{crypt, signature}).*)
(***************************************************************************)
BodyModulus == 8
\* plaintexts that decode as an EnvelopeBody
EnvelopeBodies == {1, 2}
CipherTexts == 0 .. (BodyModulus - 1)

generate_ecdh_secret(secret_key, public_key) == Pow(public_key, secret_key, GroupModulus)
encrypt(shared_secret, plain) == (plain + shared_secret) % BodyModulus
decrypt(shared_secret, cipher) == (cipher + BodyModulus - (shared_secret % BodyModulus)) % BodyModulus
EnvelopeBody_decode(bytes) == IF bytes \in EnvelopeBodies THEN Some(bytes) ELSE None

\* a signature names the key that made it and the bytes it was made over;
\* Malformed signature bytes make verification raise an error
sign(i, body) == [signer |-> PublicKeyOf(i), over |-> body, malformed |-> FALSE]
signature_verify(public_key, sig, body) ==
    IF sig.malformed THEN "Err"
    ELSE IF sig.signer = public_key /\ sig.over = body THEN "true" ELSE "false"

(***************************************************************************)
(* Envelope data: Destination, DhtMessageHeader, StoredMessage.            *)
(***************************************************************************)
ENCRYPTED == "ENCRYPTED"

DestUnknown == [tag |-> "Unknown", val |-> 0]
DestPublicKey(pk) == [tag |-> "PublicKey", val |-> pk]
DestNodeId(id) == [tag |-> "NodeId", val |-> id]
Destinations ==
    {DestUnknown} \cup {DestPublicKey(pk) : pk \in PublicKeys} \cup {DestNodeId(id) : id \in NodeIds}

\* proto header of a stored message; destination is Option<Destination>
Header(destination, origin, sig, flags) ==
    [destination |-> destination, origin_public_key |-> PublicKeyOf(origin),
     origin_signature |-> sig, flags |-> flags]

StoredMessage(dht_header, encrypted_body, stored_at) ==
    [version |-> 0, dht_header |-> dht_header, encrypted_body |-> encrypted_body,
     stored_at |-> stored_at]

\* a message of origin for recipient `to`, as the origin's outbound pipeline builds it
Sealed(origin, to, plain) ==
    encrypt(generate_ecdh_secret(SecretKey(origin), PublicKeyOf(to)), plain)

(***************************************************************************)
(* Message store (SafStorage): bounded, TTL-aware, in insertion order.     *)
(***************************************************************************)
RECURSIVE SeqFilterKey(_, _)
SeqFilterKey(s, key) ==
    IF s = <<>> THEN <<>>
    ELSE IF Head(s).key = key THEN SeqFilterKey(Tail(s), key)
         ELSE <<Head(s)>> \o SeqFilterKey(Tail(s), key)

IsExpired(entry, t) == entry.expiration <= t

\* insert(key, message, ttl): overwrite the key, evict the oldest past capacity
SafStorage_insert(s, capacity, key, message, ttl, t) ==
    LET put == Append(SeqFilterKey(s, key),
                      [key |-> key, value |-> message, expiration |-> t + ttl])
    IN IF capacity = 0 THEN <<>>
       ELSE IF Len(put) > capacity THEN Tail(put) ELSE put

RECURSIVE SafStorage_iter(_, _)
\* the non-expired messages at time t, in iteration order
SafStorage_iter(s, t) ==
    IF s = <<>> THEN <<>>
    ELSE IF IsExpired(Head(s), t) THEN SafStorage_iter(Tail(s), t)
         ELSE <<Head(s).value>> \o SafStorage_iter(Tail(s), t)

RECURSIVE SafStorage_sweep(_, _)
\* lazy physical removal of the expired entries
SafStorage_sweep(s, t) ==
    IF s = <<>> THEN <<>>
    ELSE IF IsExpired(Head(s), t) THEN SafStorage_sweep(Tail(s), t)
         ELSE <<Head(s)>> \o SafStorage_sweep(Tail(s), t)

(***************************************************************************)
(* Peer directory (PeerManager).                                           *)
(***************************************************************************)
Distance(a, b) == Abs(a - b)

\* in_network_region(node_id, region_node_id, n): node_id is among the n known
\* peers closest to region_node_id; "Err" when the directory query fails
in_network_region(pm, node_id, region_node_id, n) ==
    IF pm.failing THEN "Err"
    ELSE IF Cardinality({p \in (pm.known \cup {node_id}) \ {region_node_id} :
                           Distance(p, region_node_id) < Distance(node_id, region_node_id)}) < n
         THEN "true" ELSE "false"

find_by_public_key(pm, pk) ==
    IF \E p \in pm.known : PublicKeyOf(p) = pk
    THEN Some(Peer(CHOOSE p \in pm.known : PublicKeyOf(p) = pk))
    ELSE None

(***************************************************************************)
(* Messages handed to the SAF handler (DecryptedDhtMessage) and what it    *)
(* sends (the outbound channel's SendMessage request).                     *)
(***************************************************************************)
SafRequestMessages == "SafRequestMessages"
SafStoredMessages == "SafStoredMessages"
OtherMessageType == "None"
\* a DHT message type that is not a SAF type
Join == "Join"

\* DhtMessageType::is_dht_message
is_dht_message(message_type) == message_type # OtherMessageType

\* body: the decoded first part of the envelope body, or why it does not decode
NoPart == [kind |-> "NoPart"]
Undecodable == [kind |-> "Undecodable"]
StoredMessagesRequest(since) == [kind |-> "StoredMessagesRequest", since |-> since]
StoredMessagesResponse(messages) == [kind |-> "StoredMessagesResponse", messages |-> messages]
Payload(x) == [kind |-> "Payload", data |-> x]

DecryptedDhtMessage(message_type, source, decryption_failed, body) ==
    [message_type |-> message_type, source_peer |-> Peer(source),
     decryption_failed |-> decryption_failed, body |-> body]

DhtConfig(saf_max_returned_messages, saf_num_closest_nodes, num_neighbouring_nodes) ==
    [saf_max_returned_messages |-> saf_max_returned_messages,
     saf_num_closest_nodes |-> saf_num_closest_nodes,
     num_neighbouring_nodes |-> num_neighbouring_nodes]

(***************************************************************************)
(* SAF request handler.                                                    *)
(***************************************************************************)
\* mutant: the comparison is strict
since_filter_strict(since, msg) ==
    IF IsSome(since)
    THEN (IF IsSome(msg.stored_at) THEN Unwrap(since) < Unwrap(msg.stored_at) ELSE FALSE)
    ELSE TRUE

\* mutant: a message without stored_at passes every since
since_filter_missing_passes(since, msg) ==
    IF IsSome(since)
    THEN (IF IsSome(msg.stored_at) THEN Unwrap(since) <= Unwrap(msg.stored_at) ELSE TRUE)
    ELSE TRUE

\* task.rs:154-156, the since filter
since_filter(since, msg) ==
    IF IsSome(since)
    THEN (IF IsSome(msg.stored_at) THEN Unwrap(since) <= Unwrap(msg.stored_at) ELSE FALSE)
    ELSE TRUE

\* mutant: a PublicKey destination is not compared with the requesting peer's key
destination_filter_any_key(source_peer, msg) ==
    IF msg.dht_header = None THEN FALSE
    ELSE LET dht_header == Unwrap(msg.dht_header)
         IN IF dht_header.destination = None THEN FALSE
            ELSE LET d == Unwrap(dht_header.destination)
                 IN CASE d.tag = "Unknown" -> TRUE
                      [] d.tag = "PublicKey" -> TRUE
                      [] d.tag = "NodeId" -> d.val = source_peer.node_id

\* mutant: an undisclosed recipient matches nobody
destination_filter_unknown_none(source_peer, msg) ==
    IF msg.dht_header = None THEN FALSE
    ELSE LET dht_header == Unwrap(msg.dht_header)
         IN IF dht_header.destination = None THEN FALSE
            ELSE LET d == Unwrap(dht_header.destination)
                 IN CASE d.tag = "Unknown" -> FALSE
                      [] d.tag = "PublicKey" -> d.val = source_peer.public_key
                      [] d.tag = "NodeId" -> d.val = source_peer.node_id

\* task.rs:157-174, the destination filter
destination_filter(source_peer, msg) ==
    IF msg.dht_header = None THEN FALSE
    ELSE LET dht_header == Unwrap(msg.dht_header)
         IN IF dht_header.destination = None THEN FALSE
            ELSE LET d == Unwrap(dht_header.destination)
                 IN CASE d.tag = "Unknown" -> TRUE
                      [] d.tag = "PublicKey" -> d.val = source_peer.public_key
                      [] d.tag = "NodeId" -> d.val = source_peer.node_id

RECURSIVE filter_take_uncapped(_, _, _, _)
\* mutant: take(n) is missing
filter_take_uncapped(entries, since, source_peer, n) ==
    IF entries = <<>> THEN <<>>
    ELSE IF since_filter(since, Head(entries)) /\ destination_filter(source_peer, Head(entries))
         THEN <<Head(entries)>> \o filter_take_uncapped(Tail(entries), since, source_peer, n)
         ELSE filter_take_uncapped(Tail(entries), since, source_peer, n)

RECURSIVE filter_take_at_least_one(_, _, _, _)
\* mutant: a batch size of zero is read as one
filter_take_at_least_one(entries, since, source_peer, n) ==
    IF entries = <<>> THEN <<>>
    ELSE IF since_filter(since, Head(entries)) /\ destination_filter(source_peer, Head(entries))
         THEN <<Head(entries)>> \o (IF n <= 1 THEN <<>>
                                    ELSE filter_take_at_least_one(Tail(entries), since, source_peer, n - 1))
         ELSE filter_take_at_least_one(Tail(entries), since, source_peer, n)

RECURSIVE filter_take(_, _, _, _)
\* task.rs:151-178: iter().filter().filter().take(n).cloned().collect()
filter_take(entries, since, source_peer, n) ==
    IF entries = <<>> \/ n = 0 THEN <<>>
    ELSE IF since_filter(since, Head(entries)) /\ destination_filter(source_peer, Head(entries))
         THEN <<Head(entries)>> \o filter_take(Tail(entries), since, source_peer, n - 1)
         ELSE filter_take(Tail(entries), since, source_peer, n)

\* BroadcastStrategy (broadcast_strategy.rs:34-49) and is_direct (:65-71)
DirectNodeId(id) == [kind |-> "DirectNodeId", public_key |-> 0, node_id |-> id]
DirectPublicKey(pk) == [kind |-> "DirectPublicKey", public_key |-> pk, node_id |-> 0]
Flood == [kind |-> "Flood", public_key |-> 0, node_id |-> 0]
is_direct(strategy) == strategy.kind \in {"DirectNodeId", "DirectPublicKey"}

\* OutboundMessageRequester::send_dht_message: the request put on the outbound channel
send_dht_message(broadcast_strategy, destination, encryption, message_type, body) ==
    [broadcast_strategy |-> broadcast_strategy, destination |-> destination,
     encryption |-> encryption, message_type |-> message_type, body |-> body]

\* mutant: the region check is skipped
region_check_skipped(pm, node_identity, config, source_peer) == "true"

\* task.rs:137-141, the region check of the requesting peer
region_check(pm, node_identity, config, source_peer) ==
    in_network_region(pm, source_peer.node_id, node_identity.node_id, config.saf_num_closest_nodes)

RECURSIVE store_iter_all(_, _)
\* mutant: the handler reads the entries without the expiry check
store_iter_all(s, t) ==
    IF s = <<>> THEN <<>> ELSE <<Head(s).value>> \o store_iter_all(Tail(s), t)

\* task.rs:150-152, the snapshot of the store the handler filters
store_iter(s, t) == SafStorage_iter(s, t)

RECURSIVE with_inner_drains(_, _)
\* mutant: the messages that are returned are taken out of the store
with_inner_drains(s, messages) ==
    IF s = <<>> THEN <<>>
    ELSE IF \E j \in 1 .. Len(messages) : messages[j] = Head(s).value
         THEN with_inner_drains(Tail(s), messages)
         ELSE <<Head(s)>> \o with_inner_drains(Tail(s), messages)

\* task.rs:150-179: the store once with_inner has returned; iter() and cloned()
\* leave every entry where it is
with_inner(s, messages) == s

\* mutant: the response is flooded
send_stored_messages_flood(source_peer, messages) ==
    send_dht_message(Flood, DestUnknown, "EncryptForDestination", SafStoredMessages,
                     StoredMessagesResponse(messages))

\* task.rs:181-196, the response sent back to the requesting peer
send_stored_messages(source_peer, messages) ==
    send_dht_message(DirectPublicKey(source_peer.public_key), DestUnknown,
                     "EncryptForDestination", SafStoredMessages,
                     StoredMessagesResponse(messages))

\* mutant: a payload that is absent or does not decode is read as a request for
\* everything
decode_request_lenient(body) ==
    [result |-> "Ok",
     part |-> Some(IF body.kind = "StoredMessagesRequest" THEN body ELSE StoredMessagesRequest(None))]

\* task.rs:133-135: decode_part::<StoredMessagesRequest>(0)?.ok_or(InvalidEnvelopeBody)?
decode_request(body) ==
    IF body.kind = "Undecodable" THEN [result |-> "DecodeError", part |-> None]
    ELSE IF body.kind # "StoredMessagesRequest" THEN [result |-> "InvalidEnvelopeBody", part |-> None]
    ELSE [result |-> "Ok", part |-> Some(body)]

\* mutant: nothing is sent when no stored message is left after the filters
handle_stored_messages_request_skips_empty(node_identity, config, entries, pm, message) ==
    LET decoded == decode_request(message.body)
    IN IF decoded.result # "Ok" THEN [result |-> decoded.result, sent |-> <<>>, calls |-> {}]
       ELSE LET retrieve_msgs == Unwrap(decoded.part)
                in_region == region_check(pm, node_identity, config, message.source_peer)
            IN IF in_region = "Err"
               THEN [result |-> "PeerManagerError", sent |-> <<>>, calls |-> {"peer_manager"}]
               ELSE IF in_region = "false"
               THEN [result |-> "Ok", sent |-> <<>>, calls |-> {"peer_manager"}]
               ELSE LET messages == filter_take(entries, retrieve_msgs.since, message.source_peer,
                                                config.saf_max_returned_messages)
                    IN [result |-> "Ok",
                        sent |-> IF messages = <<>> THEN <<>>
                                 ELSE <<send_stored_messages(message.source_peer, messages)>>,
                        calls |-> {"peer_manager", "store", "outbound_service"}]

\* the outcome of handle_stored_messages_request: its result, what it sends, and
\* which of the peer manager, the store and the outbound service it has called
handle_stored_messages_request(node_identity, config, entries, pm, message) ==
    LET decoded == decode_request(message.body)
    IN IF decoded.result # "Ok" THEN [result |-> decoded.result, sent |-> <<>>, calls |-> {}]
       ELSE LET retrieve_msgs == Unwrap(decoded.part)
                in_region == region_check(pm, node_identity, config, message.source_peer)
            IN IF in_region = "Err"
               THEN [result |-> "PeerManagerError", sent |-> <<>>, calls |-> {"peer_manager"}]
               ELSE IF in_region = "false"
               THEN [result |-> "Ok", sent |-> <<>>, calls |-> {"peer_manager"}]
               ELSE LET messages == filter_take(entries, retrieve_msgs.since, message.source_peer,
                                                config.saf_max_returned_messages)
                    IN [result |-> "Ok",
                        sent |-> <<send_stored_messages(message.source_peer, messages)>>,
                        calls |-> {"peer_manager", "store", "outbound_service"}]

(***************************************************************************)
(* SAF response handler: the per-message processing.                       *)
(***************************************************************************)
\* mutant: a failing region query lets the message through
check_destination_fail_open(config, pm, node_identity, dht_header) ==
    LET d == Unwrap(dht_header.destination)
    IN IF CASE d.tag = "Unknown" -> TRUE
            [] d.tag = "PublicKey" -> node_identity.public_key = d.val
            [] d.tag = "NodeId" ->
                 IF node_identity.node_id = d.val THEN TRUE
                 ELSE LET r == in_network_region(pm, node_identity.node_id, d.val,
                                                 config.num_neighbouring_nodes)
                      IN (IF r = "Err" THEN "true" ELSE r) = "true"
       THEN "Ok" ELSE "InvalidDestination"

\* task.rs:359-384
check_destination(config, pm, node_identity, dht_header) ==
    LET d == Unwrap(dht_header.destination)
    IN IF CASE d.tag = "Unknown" -> TRUE
            [] d.tag = "PublicKey" -> node_identity.public_key = d.val
            [] d.tag = "NodeId" ->
                 IF node_identity.node_id = d.val THEN TRUE
                 ELSE LET r == in_network_region(pm, node_identity.node_id, d.val,
                                                 config.num_neighbouring_nodes)
                      IN (IF r = "Err" THEN "false" ELSE r) = "true"
       THEN "Ok" ELSE "InvalidDestination"

\* mutant: an error of the verification is not a failed verification
check_signature_err_ok(dht_header, body) ==
    LET v == signature_verify(dht_header.origin_public_key, dht_header.origin_signature, body)
    IN IF v = "false" THEN "InvalidSignature" ELSE "Ok"

\* task.rs:386-393
check_signature(dht_header, body) ==
    LET v == signature_verify(dht_header.origin_public_key, dht_header.origin_signature, body)
    IN IF v = "Err" THEN "InvalidSignature"
       ELSE IF v = "true" THEN "Ok" ELSE "InvalidSignature"

\* mutant: the flags are not looked at
check_flags_skipped(dht_header) == "Ok"

\* task.rs:352-357
check_flags(dht_header) ==
    IF ENCRYPTED \in dht_header.flags THEN "Ok" ELSE "StoredMessageNotEncrypted"

\* whether check_destination asks the peer directory (task.rs:370-380)
queries_region(node_identity, message) ==
    /\ message.dht_header # None
    /\ Unwrap(message.dht_header).destination # None
    /\ LET d == Unwrap(Unwrap(message.dht_header).destination)
       IN d.tag = "NodeId" /\ d.val # node_identity.node_id

\* task.rs:305-319: the header, destination, signature and flag checks, in this order
header_checks(config, pm, node_identity, message) ==
    IF message.dht_header = None THEN "DhtHeaderNotProvided"
    ELSE LET dht_header == Unwrap(message.dht_header)
         IN IF dht_header.destination = None THEN "DhtMessageError"
            ELSE IF check_destination(config, pm, node_identity, dht_header) # "Ok"
            THEN check_destination(config, pm, node_identity, dht_header)
            ELSE IF check_signature(dht_header, message.encrypted_body) # "Ok"
            THEN check_signature(dht_header, message.encrypted_body)
            ELSE check_flags(dht_header)

\* mutant: the duplicate check comes before the flag check
dedup_reached_before_flags(checks) == checks \in {"Ok", "StoredMessageNotEncrypted"}

\* task.rs:305-321: `?` returns the error of a check, so that check_duplicate is
\* reached only when the header, destination, signature and flag checks passed
dedup_reached(checks) == checks = "Ok"

\* mutant: the actor tests for the signature and leaves the insertion to the caller
insert_message_signature_test_only(seen, sig) == [duplicate |-> sig \in seen, seen |-> seen]

\* the DHT actor's insert_message_signature: whether the signature was there already
insert_message_signature(seen, sig) == [duplicate |-> sig \in seen, seen |-> seen \cup {sig}]

\* mutant: the answer of the DHT actor is read the wrong way round
check_duplicate_inverted(seen, dht_header) ==
    IF insert_message_signature(seen, dht_header.origin_signature).duplicate
    THEN "Ok" ELSE "DuplicateMessage"

\* mutant: the answer of the DHT actor is ignored
check_duplicate_ignored(seen, dht_header) == "Ok"

\* task.rs:338-350
check_duplicate(seen, dht_header) ==
    IF insert_message_signature(seen, dht_header.origin_signature).duplicate
    THEN "DuplicateMessage" ELSE "Ok"

\* mutant: the secret is derived from the local key pair alone
try_decrypt_own_key(node_identity, dht_header, encrypted_body) ==
    LET shared_secret == generate_ecdh_secret(node_identity.secret_key, node_identity.public_key)
        decrypted_bytes == decrypt(shared_secret, encrypted_body)
    IN EnvelopeBody_decode(decrypted_bytes)

\* task.rs:395-404: Some(decoded body) or None (DecryptionFailed)
try_decrypt(node_identity, dht_header, encrypted_body) ==
    LET shared_secret == generate_ecdh_secret(node_identity.secret_key, dht_header.origin_public_key)
        decrypted_bytes == decrypt(shared_secret, encrypted_body)
    IN EnvelopeBody_decode(decrypted_bytes)

\* DhtInboundMessage::new and DecryptedDhtMessage::succeeded (task.rs:332-334)
recovered_message(decrypted_body, dht_header, peer, encrypted_body) ==
    [dht_header |-> dht_header, source_peer |-> peer, encrypted_body |-> encrypted_body,
     decrypted_body |-> decrypted_body]

\* the state of one process_incoming_stored_message future
Pending == [status |-> "pending", msg |-> None]
Checked == [status |-> "checked", msg |-> None]
Failed(err) == [status |-> err, msg |-> None]
Succeeded(m) == [status |-> "Ok", msg |-> Some(m)]
IsFinal(r) == r.status \notin {"pending", "checked"}

\* mutant: a message of an unknown origin is attributed to the local node
decrypt_and_resolve_unattributed(pm, node_identity, message) ==
    LET dht_header == Unwrap(message.dht_header)
        decrypted_body == try_decrypt(node_identity, dht_header, message.encrypted_body)
        peer == find_by_public_key(pm, dht_header.origin_public_key)
    IN IF decrypted_body = None THEN Failed("DecryptionFailed")
       ELSE Succeeded(recovered_message(
                Unwrap(decrypted_body), dht_header,
                IF peer = None
                THEN [node_id |-> node_identity.node_id, public_key |-> node_identity.public_key]
                ELSE Unwrap(peer),
                message.encrypted_body))

\* mutant: the signature of a message that fails is taken out of the record
record_after_decrypt_retracts(seen, sig, result) == IF result.status = "Ok" THEN seen ELSE seen \ {sig}

\* task.rs:325-334: the dedup record once decryption and the lookup of the origin
\* peer have returned; neither path calls the DHT actor again
record_after_decrypt(seen, sig, result) == seen

\* task.rs:325-334: decryption, then the lookup of the origin peer
decrypt_and_resolve(pm, node_identity, message) ==
    LET dht_header == Unwrap(message.dht_header)
        decrypted_body == try_decrypt(node_identity, dht_header, message.encrypted_body)
        peer == find_by_public_key(pm, dht_header.origin_public_key)
    IN IF decrypted_body = None THEN Failed("DecryptionFailed")
       ELSE IF peer = None THEN Failed("PeerNotFoundError")
       ELSE Succeeded(recovered_message(Unwrap(decrypted_body), dht_header, Unwrap(peer),
                                        message.encrypted_body))

\* mutant: every discarded message but that of a security violation is benign
discard_log_actor_error_benign(result) ==
    CASE result.status = "DecryptionFailed" -> "debug"
      [] result.status = "PeerNotFoundError" -> "debug"
      [] result.status = "DhtActorError" -> "debug"
      [] result.status = "DuplicateMessage" -> "debug"
      [] result.status = "Ok" -> "none"
      [] OTHER -> "warn_security"

\* mutant: every discarded message is reported as a sign of a badly behaving node
discard_log_all_security(result) ==
    IF result.status = "Ok" THEN "none" ELSE "warn_security"

\* task.rs:230-275: what is logged about the result of one stored message
discard_log(result) ==
    CASE result.status = "DecryptionFailed" -> "debug"
      [] result.status = "PeerNotFoundError" -> "debug"
      [] result.status = "DhtActorError" -> "error"
      [] result.status = "DuplicateMessage" -> "debug"
      [] result.status = "Ok" -> "none"
      [] OTHER -> "warn_security"

\* mutant: an error of the next service ends the calls
call_all_next_stops_on_error(forwarded, total, ok) == IF ok THEN forwarded + 1 ELSE total

\* task.rs:280-290: call_all(...).for_each logs the error of a call and goes on;
\* the number of messages handed on after the call for message forwarded + 1
call_all_next(forwarded, total, ok) == forwarded + 1

\* mutant: the first error among the results is what the handler returns
handle_stored_messages_result_first_error(results) ==
    LET failed == {i \in 1 .. Len(results) : results[i].status # "Ok"}
    IN IF failed = {} THEN "Ok"
       ELSE results[CHOOSE i \in failed : \A j \in failed : i <= j].status

\* task.rs:227-292: the results of the per-message futures are logged and filtered,
\* none is returned: the handler returns Ok
handle_stored_messages_result(results) == "Ok"

\* mutant: the decrypted bodies reach the next service one message late
successful_msgs_bodies_rotated(results) ==
    LET ok == {i \in 1 .. Len(results) : results[i].status = "Ok"}
        nth(j) == CHOOSE i \in ok : Cardinality({h \in ok : h <= i}) = j
        n == Cardinality(ok)
    IN [j \in 1 .. n |->
           [Unwrap(results[nth(j)].msg) EXCEPT
               !.decrypted_body = Unwrap(results[nth((j % n) + 1)].msg).decrypted_body]]

\* mutant: a message is handed on as soon as its own processing is done
join_all_done_eager(results) == TRUE

\* task.rs:227: join_all(tasks).await returns once every future has returned
join_all_done(results) == \A i \in 1 .. Len(results) : IsFinal(results[i])

\* mutant: only the first successful message is handed on (oneshot for call_all)
successful_msgs_first_only(results) ==
    LET ok == {i \in 1 .. Len(results) : results[i].status = "Ok"}
    IN IF ok = {} THEN <<>>
       ELSE <<Unwrap(results[CHOOSE i \in ok : \A j \in ok : i <= j].msg)>>

\* mutant: one failed message fails the batch (try_join_all)
successful_msgs_all_or_nothing(results) ==
    IF \E i \in 1 .. Len(results) : results[i].status # "Ok" THEN <<>>
    ELSE [i \in 1 .. Len(results) |-> Unwrap(results[i].msg)]

RECURSIVE successful_msgs(_)
\* task.rs:276-279: the Ok results, in batch order
successful_msgs(results) ==
    IF results = <<>> THEN <<>>
    ELSE IF Head(results).status = "Ok"
         THEN <<Unwrap(Head(results).msg)>> \o successful_msgs(Tail(results))
         ELSE successful_msgs(Tail(results))

(***************************************************************************)
(* Inbound message service (comms/src/inbound_message_service): the frame  *)
(* sets it reads, the checks of process_message, and its run loop.         *)
(***************************************************************************)
MaxStream == 2
SinkCapacity == 1

\* a frame set as MessageData::try_from and deserialize_header read it: the node
\* id of the connection it came over, the envelope header (None when either of
\* the two fails) and the body frame
FrameSet(source_node_id, message_envelope_header, body_frame) ==
    [source_node_id |-> source_node_id, message_envelope_header |-> message_envelope_header,
     body_frame |-> body_frame]

MessageEnvelopeHeader(origin, message_signature) ==
    [origin_source |-> PublicKeyOf(origin), message_signature |-> message_signature]

\* inbound_message_service.rs:124-129
InboundMessage(peer, message_envelope_header, body_frame) ==
    [peer |-> peer, envelope_header |-> message_envelope_header, version |-> 0, body |-> body_frame]

\* inbound_message_service.rs:114
verify_signature(message_envelope_header, body_frame) ==
    signature_verify(message_envelope_header.origin_source,
                     message_envelope_header.message_signature, body_frame)

MessageCache_contains(cache, signature) == signature \in cache
\* insert fails on an entry that is there
MessageCache_insert(cache, signature) ==
    [result |-> IF signature \in cache THEN "Err" ELSE "Ok", cache |-> cache \cup {signature}]

\* mutant: the signature is looked up and never added
message_cache_check_contains_only(cache, signature) ==
    [result |-> IF MessageCache_contains(cache, signature) THEN "DuplicateMessageDiscarded" ELSE "Ok",
     cache |-> cache]

\* inbound_message_service.rs:139-152
message_cache_check(cache, signature) ==
    IF ~MessageCache_contains(cache, signature)
    THEN LET ins == MessageCache_insert(cache, signature)
         IN [result |-> IF ins.result = "Err" THEN "DuplicateMessageDiscarded" ELSE "Ok",
             cache |-> ins.cache]
    ELSE [result |-> "DuplicateMessageDiscarded", cache |-> cache]

\* inbound_message_service.rs:156-168
find_known_peer(known, source_node_id) ==
    IF \E p \in known : NodeIdOf(p) = source_node_id
    THEN Some(Peer(CHOOSE p \in known : NodeIdOf(p) = source_node_id))
    ELSE None

\* mutant: the source peer is looked up before the message cache is consulted
process_message_peer_lookup_first(cache, known, frame_set) ==
    IF frame_set.message_envelope_header = None
    THEN [result |-> "DeserializationError", cache |-> cache, inbound_message |-> None]
    ELSE LET header == Unwrap(frame_set.message_envelope_header)
             verified == verify_signature(header, frame_set.body_frame)
             peer == find_known_peer(known, frame_set.source_node_id)
             checked == message_cache_check(cache, header.message_signature)
         IN IF verified = "Err"
            THEN [result |-> "MessageError", cache |-> cache, inbound_message |-> None]
            ELSE IF verified = "false"
            THEN [result |-> "InvalidMessageSignature", cache |-> cache, inbound_message |-> None]
            ELSE IF peer = None
            THEN [result |-> "CannotFindSourcePeer", cache |-> cache, inbound_message |-> None]
            ELSE IF checked.result # "Ok"
            THEN [result |-> checked.result, cache |-> checked.cache, inbound_message |-> None]
            ELSE [result |-> "Ok", cache |-> checked.cache,
                  inbound_message |-> Some(InboundMessage(Unwrap(peer), header,
                                                          frame_set.body_frame))]

\* process_message up to the send into the sink (inbound_message_service.rs:105-129):
\* its error, or Ok with the message to send, and the message cache it leaves
process_message(cache, known, frame_set) ==
    IF frame_set.message_envelope_header = None
    THEN [result |-> "DeserializationError", cache |-> cache, inbound_message |-> None]
    ELSE LET header == Unwrap(frame_set.message_envelope_header)
             verified == verify_signature(header, frame_set.body_frame)
         IN IF verified = "Err"
            THEN [result |-> "MessageError", cache |-> cache, inbound_message |-> None]
            ELSE IF verified = "false"
            THEN [result |-> "InvalidMessageSignature", cache |-> cache, inbound_message |-> None]
            ELSE LET checked == message_cache_check(cache, header.message_signature)
                     peer == find_known_peer(known, frame_set.source_node_id)
                 IN IF checked.result # "Ok"
                    THEN [result |-> checked.result, cache |-> checked.cache, inbound_message |-> None]
                    ELSE IF peer = None
                    THEN [result |-> "CannotFindSourcePeer", cache |-> checked.cache,
                          inbound_message |-> None]
                    ELSE [result |-> "Ok", cache |-> checked.cache,
                          inbound_message |-> Some(InboundMessage(Unwrap(peer), header,
                                                                  frame_set.body_frame))]

\* mutant: an error of process_message ends the run loop
after_process_message_error_breaks(result) == IF result = "Ok" THEN "select" ELSE "terminated"

\* inbound_message_service.rs:91-93: where the run loop goes once process_message
\* has returned
after_process_message(result) == "select"

\* mutant: the shutdown branch does not leave the loop
shutdown_branch_continues == "select"

\* inbound_message_service.rs:96-99: where the run loop goes from the shutdown branch
shutdown_branch == "terminated"

\* mutant: the shutdown signal also cuts a process_message call that awaits the sink
shutdown_observed_mid_message(s) == s.shutdown_signal /\ s.pc \in {"select", "send"}

\* inbound_message_service.rs:89-100: the shutdown signal is polled by select! only
shutdown_observed(s) == s.shutdown_signal /\ s.pc = "select"

\* InnerInboundMessageService::new (inbound_message_service.rs:54-69), with the two
\* channels it is given: the frame sets waiting in the raw message stream, the
\* messages waiting in the sink and whether the sink's receiver is gone; then where
\* run() is and where it was when the signal fired, the message process_message is
\* sending, what process_message returned last and the errors the run loop has
\* logged; whether the source of the frame set taken last was a known peer, and
\* the signatures that passed the message cache check since the cache was last
\* emptied
InnerInboundMessageService_new ==
    [raw_message_stream |-> <<>>, message_cache |-> {}, message_sink |-> <<>>,
     sink_closed |-> FALSE, shutdown_signal |-> FALSE, fired_at |-> "never", pc |-> "new",
     inbound_message |-> None, last |-> "None", log |-> {}, last_known |-> FALSE,
     passed |-> <<>>]

(***************************************************************************)
(* Liveness service: the latency samples of a peer                         *)
(* (base_layer/p2p/src/services/liveness/state.rs).                        *)
(***************************************************************************)
\* the samples are u32 words; the model's word has SampleBits bits, and a Duration
\* counts up to twice the largest word in milliseconds
SampleBits == 3
SampleWindow == 2
U32_MAX == (2 ^ SampleBits) - 1
Durations == 0 .. (2 * (2 ^ SampleBits))

\* `as u32` of the u128 that as_millis() returns: the low bits are kept
as_u32(millis) == millis % (2 ^ SampleBits)

\* AverageLatency::new (state.rs:159-163), and the Duration add_sample was last
\* called with
AverageLatency_new(num_samples) == [samples |-> <<>>, capacity |-> num_samples, sample |-> None]

\* AverageLatency::add_sample (state.rs:166-171)
add_sample(latency, sample) ==
    LET kept == IF Len(latency.samples) = latency.capacity THEN Tail(latency.samples)
                ELSE latency.samples
    IN [latency EXCEPT !.samples = Append(kept, as_u32(sample)), !.sample = Some(sample)]

(***************************************************************************)
(* State machine.                                                          *)
(***************************************************************************)
TaskIds == {"t1", "t2"}

\* a MessageHandlerTask: the fields it is constructed with (task.rs:67-88), where
\* it is in run(), what run() returned, the state of the per-message futures, for
\* which of them (0: for the request) the region query failed, how often it has called the DHT actor,
\* what it has logged about each stored message, which services the request
\* handler has called, and for which stored messages the origin was a known peer
\* when the DHT actor was asked about their signature
MessageHandlerTask(node, config, message) ==
    [node |-> node, config |-> config, message |-> message, pc |-> "new", result |-> "None",
     results |-> <<>>, forwarded |-> 0, region_err |-> {}, actor_calls |-> 0, logs |-> <<>>,
     calls |-> {}, known_at_check |-> {}]

SafCapacity == MaxStore
OutboundCapacity == 1
TTLs == {0, 1}
Times == 0 .. MaxTime
OptTimes == {None} \cup {Some(t) : t \in Times}

Init ==
    /\ now = 0
    /\ store = [n \in Nodes |-> <<>>]
    /\ peer_manager = [n \in Nodes |-> Peers \ {n, Stranger}]
    /\ signatures = [n \in Nodes |-> {}]
    /\ outbound = [n \in Nodes |-> <<>>]
    /\ next_service = [n \in Nodes |-> <<>>]
    /\ task = [t \in TaskIds |-> None]
    /\ service = InnerInboundMessageService_new
    /\ average_latency = AverageLatency_new(SampleWindow)

IsDone(t) == \E k \in task[t] : k.pc = "done"
\* run() has returned in no slot: a finished task is looked at (its result, what
\* it sent) before anything else happens, then dropped
Quiescent == \A t \in TaskIds : ~IsDone(t)

Tick ==
    /\ Quiescent
    /\ now < MaxTime
    /\ now' = now + 1
    /\ UNCHANGED <<store, peer_manager, signatures, outbound, next_service, task, service, average_latency>>

\* the upstream "undeliverable message" producer stores a message under its own key
StoreInsert(n, message, ttl) ==
    /\ Quiescent
    /\ store' = [store EXCEPT ![n] = SafStorage_insert(@, SafCapacity, message, message, ttl, now)]
    /\ UNCHANGED <<now, peer_manager, signatures, outbound, next_service, task, service, average_latency>>

StoreSweep(n) ==
    /\ Quiescent
    /\ \E i \in 1 .. Len(store[n]) : IsExpired(store[n][i], now)
    /\ store' = [store EXCEPT ![n] = SafStorage_sweep(@, now)]
    /\ UNCHANGED <<now, peer_manager, signatures, outbound, next_service, task, service, average_latency>>

\* mutant: a message that did not decrypt is dispatched like one that did
run_dispatch_no_decryption_test(message) ==
    IF message.message_type = SafRequestMessages THEN "request"
    ELSE IF message.message_type = SafStoredMessages THEN "stored"
    ELSE "next_service"

\* mutant: a message that is not a SAF message is dropped
run_dispatch_other_dropped(message) ==
    IF is_dht_message(message.message_type) /\ message.decryption_failed THEN "discard"
    ELSE IF message.message_type = SafRequestMessages THEN "request"
    ELSE IF message.message_type = SafStoredMessages THEN "stored"
    ELSE "discard"

\* mutant: a request for stored messages is passed on like any other message
run_dispatch_request_passed_on(message) ==
    IF is_dht_message(message.message_type) /\ message.decryption_failed THEN "discard"
    ELSE IF message.message_type = SafStoredMessages THEN "stored"
    ELSE "next_service"

\* run (task.rs:96-113): what is done with the message the task holds
run_dispatch(message) ==
    IF is_dht_message(message.message_type) /\ message.decryption_failed THEN "discard"
    ELSE IF message.message_type = SafRequestMessages THEN "request"
    ELSE IF message.message_type = SafStoredMessages THEN "stored"
    ELSE "next_service"

\* MessageHandlerTask::new
NewTask(t, n, config, message) ==
    /\ Quiescent
    /\ task[t] = None
    /\ task' = [task EXCEPT ![t] = Some(MessageHandlerTask(n, config, message))]
    /\ UNCHANGED <<now, store, peer_manager, signatures, outbound, next_service, service, average_latency>>

\* the finished task is dropped
EndTask(t) ==
    /\ IsDone(t)
    /\ task' = [task EXCEPT ![t] = None]
    /\ UNCHANGED <<now, store, peer_manager, signatures, outbound, next_service, service, average_latency>>

\* the receiving end of the outbound channel takes the next message
OutboundRecv(n) ==
    /\ Quiescent
    /\ outbound[n] # <<>>
    /\ outbound' = [outbound EXCEPT ![n] = Tail(@)]
    /\ UNCHANGED <<now, store, peer_manager, signatures, next_service, task, service, average_latency>>

\* run() of a task whose DHT message could not be decrypted (task.rs:96-103)
RunDiscard(t) ==
    /\ Quiescent
    /\ task[t] # None
    /\ LET k == Unwrap(task[t])
       IN /\ k.pc = "new"
          /\ run_dispatch(k.message) = "discard"
          /\ task' = [task EXCEPT ![t] = Some([k EXCEPT !.pc = "done", !.result = "Ok"])]
    /\ UNCHANGED <<now, store, peer_manager, signatures, outbound, next_service, service, average_latency>>

\* run() of a task that holds any other message: the message goes to the next
\* service, whose error run() returns (task.rs:109-113)
RunOther(t, ok) ==
    /\ Quiescent
    /\ task[t] # None
    /\ LET k == Unwrap(task[t])
           n == k.node
       IN /\ k.pc = "new"
          /\ run_dispatch(k.message) = "next_service"
          /\ next_service' = [next_service EXCEPT ![n] = Append(@, [request |-> k.message, ok |-> ok])]
          /\ task' = [task EXCEPT ![t] = Some(
                 [k EXCEPT !.pc = "done", !.result = IF ok THEN "Ok" ELSE "MiddlewareError"])]
    /\ UNCHANGED <<now, store, peer_manager, signatures, outbound, service, average_latency>>

\* run() of a task that holds a SafRequestMessages message (task.rs:90-117, 119-199)
RunRequest(t, failing) ==
    /\ Quiescent
    /\ task[t] # None
    /\ LET k == Unwrap(task[t])
           n == k.node
       IN /\ k.pc = "new"
          /\ run_dispatch(k.message) = "request"
          /\ failing => k.message.body.kind = "StoredMessagesRequest"
          /\ LET out == handle_stored_messages_request(
                            NodeIdentity(n), k.config, store_iter(store[n], now),
                            [known |-> peer_manager[n], failing |-> failing], k.message)
             IN /\ Len(outbound[n]) + Len(out.sent) <= OutboundCapacity
                /\ outbound' = [outbound EXCEPT ![n] = @ \o out.sent]
                /\ store' = [store EXCEPT ![n] =
                       IF out.sent = <<>> THEN @ ELSE with_inner(@, out.sent[1].body.messages)]
                /\ task' = [task EXCEPT ![t] = Some(
                       [k EXCEPT !.pc = "done", !.result = out.result,
                                 !.region_err = IF failing THEN {0} ELSE {},
                                 !.calls = out.calls])]
    /\ UNCHANGED <<now, peer_manager, signatures, next_service, service, average_latency>>

\* run() of a task that holds a SafStoredMessages message, up to the creation of the
\* per-message futures (task.rs:90-117, 201-225)
RunStored(t) ==
    /\ Quiescent
    /\ task[t] # None
    /\ LET k == Unwrap(task[t])
       IN /\ k.pc = "new"
          /\ run_dispatch(k.message) = "stored"
          /\ task' = [task EXCEPT ![t] = Some(
                 IF k.message.body.kind = "Undecodable"
                 THEN [k EXCEPT !.pc = "done", !.result = "DecodeError"]
                 ELSE IF k.message.body.kind # "StoredMessagesResponse"
                 THEN [k EXCEPT !.pc = "done", !.result = "InvalidEnvelopeBody"]
                 ELSE [k EXCEPT !.pc = "processing",
                                !.results = [i \in 1 .. Len(k.message.body.messages) |-> Pending]])]
    /\ UNCHANGED <<now, store, peer_manager, signatures, outbound, next_service, service, average_latency>>

\* process_incoming_stored_message of message i, up to the answer of the DHT actor
\* (task.rs:304-323); failing: the region query fails; actor_fails: the actor call fails
ProcessCheck(t, i, failing, actor_fails) ==
    /\ Quiescent
    /\ task[t] # None
    /\ LET k == Unwrap(task[t])
           n == k.node
       IN /\ k.pc = "processing"
          /\ i \in 1 .. Len(k.results)
          /\ k.results[i] = Pending
          /\ LET message == k.message.body.messages[i]
                 pm == [known |-> peer_manager[n], failing |-> failing]
                 checks == header_checks(k.config, pm, NodeIdentity(n), message)
             IN /\ failing => queries_region(NodeIdentity(n), message)
                /\ actor_fails => (checks = "Ok" /\ ~failing)
                /\ IF ~dedup_reached(checks)
                   THEN /\ task' = [task EXCEPT ![t] = Some(
                               [k EXCEPT !.results[i] = Failed(checks),
                                         !.region_err = IF failing THEN @ \cup {i} ELSE @])]
                        /\ UNCHANGED signatures
                   ELSE IF actor_fails
                   THEN /\ task' = [task EXCEPT ![t] =
                                       Some([k EXCEPT !.results[i] = Failed("DhtActorError"),
                                                      !.actor_calls = @ + 1])]
                        /\ UNCHANGED signatures
                   ELSE LET dht_header == Unwrap(message.dht_header)
                            dup == check_duplicate(signatures[n], dht_header)
                        IN /\ signatures' = [signatures EXCEPT ![n] =
                                  insert_message_signature(@, dht_header.origin_signature).seen]
                           /\ task' = [task EXCEPT ![t] = Some(
                                  [k EXCEPT !.results[i] = IF dup = "Ok" THEN Checked ELSE Failed(dup),
                                            !.actor_calls = @ + 1,
                                            !.known_at_check =
                                                IF find_by_public_key(pm, dht_header.origin_public_key) # None
                                                THEN @ \cup {i} ELSE @])]
    /\ UNCHANGED <<now, store, peer_manager, outbound, next_service, service, average_latency>>

\* process_incoming_stored_message of message i, from the decryption on (task.rs:325-334)
ProcessDecrypt(t, i) ==
    /\ Quiescent
    /\ task[t] # None
    /\ LET k == Unwrap(task[t])
           n == k.node
       IN /\ k.pc = "processing"
          /\ i \in 1 .. Len(k.results)
          /\ k.results[i] = Checked
          /\ LET message == k.message.body.messages[i]
                 result == decrypt_and_resolve([known |-> peer_manager[n], failing |-> FALSE],
                                               NodeIdentity(n), message)
             IN /\ task' = [task EXCEPT ![t] = Some([k EXCEPT !.results[i] = result])]
                /\ signatures' = [signatures EXCEPT ![n] =
                       record_after_decrypt(@, Unwrap(message.dht_header).origin_signature, result)]
    /\ UNCHANGED <<now, store, peer_manager, outbound, next_service, service, average_latency>>

AllFinal(k) == join_all_done(k.results)

\* after join_all: the next successful message is handed to the downstream service,
\* which answers ok or with an error that is only logged (task.rs:227-290)
Forward(t, ok) ==
    /\ Quiescent
    /\ task[t] # None
    /\ LET k == Unwrap(task[t])
           n == k.node
           msgs == successful_msgs(k.results)
       IN /\ k.pc = "processing"
          /\ AllFinal(k)
          /\ k.forwarded < Len(msgs)
          /\ next_service' = [next_service EXCEPT ![n] =
                 Append(@, [request |-> msgs[k.forwarded + 1], ok |-> ok])]
          /\ task' = [task EXCEPT ![t] =
                 Some([k EXCEPT !.forwarded = call_all_next(@, Len(msgs), ok)])]
    /\ UNCHANGED <<now, store, peer_manager, signatures, outbound, service, average_latency>>

\* handle_stored_messages returns Ok (task.rs:292); by now the results have been
\* looked at one by one and logged (task.rs:230-275)
FinishStored(t) ==
    /\ Quiescent
    /\ task[t] # None
    /\ LET k == Unwrap(task[t])
       IN /\ k.pc = "processing"
          /\ AllFinal(k)
          /\ k.forwarded = Len(successful_msgs(k.results))
          /\ task' = [task EXCEPT ![t] = Some(
                 [k EXCEPT !.pc = "done", !.result = handle_stored_messages_result(k.results),
                           !.logs = [i \in 1 .. Len(k.results) |-> discard_log(k.results[i])]])]
    /\ UNCHANGED <<now, store, peer_manager, signatures, outbound, next_service, service, average_latency>>

\* the downstream spy's requests are taken (spy.take_requests)
TakeRequests(n) ==
    /\ Quiescent
    /\ \A t \in TaskIds : task[t] # None => Unwrap(task[t]).node # n
    /\ next_service[n] # <<>>
    /\ next_service' = [next_service EXCEPT ![n] = <<>>]
    /\ UNCHANGED <<now, store, peer_manager, signatures, outbound, task, service, average_latency>>

\* the signatures recorded by the DHT actor pass the retention horizon
SignaturesExpire(n) ==
    /\ Quiescent
    /\ signatures[n] # {}
    /\ signatures' = [signatures EXCEPT ![n] = {}]
    /\ UNCHANGED <<now, store, peer_manager, outbound, next_service, task, service, average_latency>>

(***************************************************************************)
(* The inbound message service of the holder: its run loop and the two     *)
(* channels it sits between.                                               *)
(***************************************************************************)
saf_vars == <<now, store, peer_manager, signatures, outbound, next_service, task>>

\* run() is started: it takes the signal and the stream (inbound_message_service.rs:74-87)
ServiceRun ==
    /\ service.pc = "new"
    /\ service' = [service EXCEPT !.pc = "select"]
    /\ UNCHANGED <<saf_vars, average_latency>>

\* a peer connection puts a frame set into the raw message stream, while run()
\* holds its receiving end
RawMessageSend(frame_set) ==
    /\ service.pc # "terminated"
    /\ Len(service.raw_message_stream) < MaxStream
    /\ service' = [service EXCEPT !.raw_message_stream = Append(@, frame_set)]
    /\ UNCHANGED <<saf_vars, average_latency>>

\* the shutdown signal fires
ShutdownTrigger ==
    /\ ~service.shutdown_signal
    /\ service' = [service EXCEPT !.shutdown_signal = TRUE, !.fired_at = service.pc]
    /\ UNCHANGED <<saf_vars, average_latency>>

\* select! takes the next frame set and process_message runs up to the send into
\* the sink (inbound_message_service.rs:90-93, 105-129); its error is logged
SelectNextSome ==
    /\ service.pc = "select"
    /\ service.raw_message_stream # <<>>
    /\ LET p == process_message(service.message_cache, peer_manager[Holder],
                                Head(service.raw_message_stream))
       IN service' = [service EXCEPT
              !.raw_message_stream = Tail(@),
              !.message_cache = p.cache,
              !.inbound_message = p.inbound_message,
              !.pc = IF p.result = "Ok" THEN "send" ELSE after_process_message(p.result),
              !.last = IF p.result = "Ok" THEN @ ELSE p.result,
              !.log = IF p.result = "Ok" THEN @ ELSE @ \cup {p.result},
              !.last_known = find_known_peer(peer_manager[Holder],
                                 Head(service.raw_message_stream).source_node_id) # None,
              !.passed = IF p.result = "Ok"
                         THEN Append(@, Unwrap(p.inbound_message).envelope_header.message_signature)
                         ELSE @]
    /\ UNCHANGED <<saf_vars, average_latency>>

\* message_sink.send(inbound_message).await returns and with it process_message
\* (inbound_message_service.rs:131-133, 91-93): the message is in the sink, or the
\* sink's receiver is gone and the error is logged
SinkSend ==
    /\ service.pc = "send"
    /\ service.sink_closed \/ Len(service.message_sink) < SinkCapacity
    /\ LET result == IF service.sink_closed THEN "SendError" ELSE "Ok"
       IN service' = [service EXCEPT
              !.message_sink = IF result = "Ok" THEN Append(@, Unwrap(service.inbound_message))
                               ELSE @,
              !.inbound_message = None,
              !.pc = after_process_message(result),
              !.last = result,
              !.log = IF result = "Ok" THEN @ ELSE @ \cup {result}]
    /\ UNCHANGED <<saf_vars, average_latency>>

\* select! takes the shutdown branch (inbound_message_service.rs:96-99); run()
\* returns and drops the service
SelectShutdown ==
    /\ service.pc # "terminated"
    /\ shutdown_observed(service)
    /\ service' = [service EXCEPT !.pc = shutdown_branch]
    /\ UNCHANGED <<saf_vars, average_latency>>

\* the entries of the message cache pass its TTL (inbound_message_service.rs:137-138)
MessageCacheExpire ==
    /\ service.pc # "terminated"
    /\ service.message_cache # {}
    /\ service' = [service EXCEPT !.message_cache = {}, !.passed = <<>>]
    /\ UNCHANGED <<saf_vars, average_latency>>

\* a peer is added to the peer manager of node n
AddPeer(n, p) ==
    /\ Quiescent
    /\ p \notin peer_manager[n]
    /\ peer_manager' = [peer_manager EXCEPT ![n] = @ \cup {p}]
    /\ UNCHANGED <<now, store, signatures, outbound, next_service, task, service, average_latency>>

\* the receiving end of the sink takes the next message
SinkRecv ==
    /\ ~service.sink_closed
    /\ service.message_sink # <<>>
    /\ service' = [service EXCEPT !.message_sink = Tail(@)]
    /\ UNCHANGED <<saf_vars, average_latency>>

\* the receiving end of the sink is dropped, with what it had not taken
SinkClose ==
    /\ ~service.sink_closed
    /\ service' = [service EXCEPT !.sink_closed = TRUE, !.message_sink = <<>>]
    /\ UNCHANGED <<saf_vars, average_latency>>

(***************************************************************************)
(* SpecReq: the request handler of the holder node, fed by the requests of *)
(* its peers over a store whose entries do not expire.                     *)
(***************************************************************************)
SafNumClosest == 1

ReqHeader(d) == Some(Header(d, Origin, sign(Origin, Sealed(Origin, Receiver, 1)), {ENCRYPTED}))
\* every destination, stored at time 0; and every stored_at, destination Unknown;
\* and a message stored without a header
ReqStoredMessages ==
    {StoredMessage(ReqHeader(d), Sealed(Origin, Receiver, 1), Some(0)) :
        d \in {None} \cup {Some(x) : x \in Destinations}}
    \cup {StoredMessage(ReqHeader(Some(DestUnknown)), Sealed(Origin, Receiver, 1), st) : st \in OptTimes}
    \cup {StoredMessage(None, Sealed(Origin, Receiver, 1), Some(0))}

ReqConfigs == {DhtConfig(m, SafNumClosest, SafNumClosest) : m \in 0 .. MaxBatch}

RequestMessages ==
    {DecryptedDhtMessage(SafRequestMessages, src, FALSE, StoredMessagesRequest(since)) :
        src \in Peers \ {Holder}, since \in OptTimes}

NextReq ==
    \/ \E m \in ReqStoredMessages : StoreInsert(Holder, m, MaxTime + 1)
    \/ /\ outbound[Holder] = <<>>
       /\ \E c \in ReqConfigs, m \in RequestMessages : NewTask("t1", Holder, c, m)
    \/ \E failing \in BOOLEAN : RunRequest("t1", failing)
    \/ OutboundRecv(Holder)
    \/ EndTask("t1")

SpecReq == Init /\ [][NextReq]_vars

(***************************************************************************)
(* SpecTtl: the same handler over a store whose entries expire while the   *)
(* clock runs and the sweep removes them lazily.                           *)
(***************************************************************************)
TtlStoredMessages ==
    {StoredMessage(ReqHeader(Some(d)), Sealed(Origin, Receiver, 1), Some(0)) :
        d \in {DestUnknown, DestNodeId(NodeIdOf(Receiver)), DestPublicKey(PublicKeyOf(Origin))}}

NextTtl ==
    \/ Tick
    \/ \E m \in TtlStoredMessages, ttl \in TTLs : StoreInsert(Holder, m, ttl)
    \/ StoreSweep(Holder)
    \/ /\ outbound[Holder] = <<>>
       /\ \E c \in ReqConfigs, m \in RequestMessages : NewTask("t1", Holder, c, m)
    \/ \E failing \in BOOLEAN : RunRequest("t1", failing)
    \/ OutboundRecv(Holder)
    \/ EndTask("t1")

SpecTtl == Init /\ [][NextTtl]_vars

(***************************************************************************)
(* SpecResp: the response handler of the receiver, fed with batches of     *)
(* stored messages: well-formed ones and ones with a single fault.         *)
(***************************************************************************)
\* a stored message of origin for recipient `to` with body plain, signed by signer
Stored(origin, to, plain, destination, sig, flags) ==
    StoredMessage(Some(Header(destination, origin, sig, flags)), Sealed(origin, to, plain), Some(0))
WellFormed(origin, to, plain, d) ==
    Stored(origin, to, plain, Some(d), sign(origin, Sealed(origin, to, plain)), {ENCRYPTED})

ReceiverId == DestNodeId(NodeIdOf(Receiver))
RespStoredMessages ==
    \* every destination
    {WellFormed(Origin, Receiver, 1, d) : d \in Destinations}
    \cup {WellFormed(Origin, Receiver, 2, ReceiverId)}
    \* no header, no destination
    \cup {StoredMessage(None, Sealed(Origin, Receiver, 1), Some(0)),
          Stored(Origin, Receiver, 1, None, sign(Origin, Sealed(Origin, Receiver, 1)), {ENCRYPTED})}
    \* a signature over other bytes, of another signer, malformed
    \cup {Stored(Origin, Receiver, 1, Some(ReceiverId), sig, {ENCRYPTED}) :
            sig \in {sign(Origin, Sealed(Origin, Receiver, 2)),
                     sign(Stranger, Sealed(Origin, Receiver, 1)),
                     [sign(Origin, Sealed(Origin, Receiver, 1)) EXCEPT !.malformed = TRUE]}}
    \* not flagged as encrypted
    \cup {Stored(Origin, Receiver, 1, Some(ReceiverId), sign(Origin, Sealed(Origin, Receiver, 1)), {})}
    \* encrypted for another node; of an origin the receiver does not know
    \cup {WellFormed(Origin, Holder, 1, DestUnknown), WellFormed(Stranger, Receiver, 1, ReceiverId)}

RECURSIVE SeqsUpTo(_, _)
\* the sequences over S of length 1 .. n
SeqsUpTo(S, n) ==
    IF n = 0 THEN {}
    ELSE {<<x>> : x \in S} \cup {Append(q, x) : q \in SeqsUpTo(S, n - 1), x \in S}

RespConfigs == {DhtConfig(MaxBatch, SafNumClosest, SafNumClosest)}

ResponseMessages ==
    {DecryptedDhtMessage(SafStoredMessages, Holder, FALSE, StoredMessagesResponse(batch)) :
        batch \in SeqsUpTo(RespStoredMessages, MaxResp)}

NextResp ==
    \/ /\ next_service[Receiver] = <<>>
       /\ signatures[Receiver] = {}
       /\ \E c \in RespConfigs, m \in ResponseMessages : NewTask("t2", Receiver, c, m)
    \/ RunStored("t2")
    \/ \E i \in 1 .. MaxResp, failing \in BOOLEAN, actor_fails \in BOOLEAN :
          ProcessCheck("t2", i, failing, actor_fails)
    \/ \E i \in 1 .. MaxResp : ProcessDecrypt("t2", i)
    \/ \E ok \in BOOLEAN : Forward("t2", ok)
    \/ FinishStored("t2")
    \/ EndTask("t2")
    \/ TakeRequests(Receiver)
    \/ SignaturesExpire(Receiver)

SpecResp == Init /\ [][NextResp]_vars

\* the retention horizon of the DHT actor's signature record passes at a node that is
\* handling nothing: the record is emptied, and the downstream log is read and reset
RetentionHorizon(n) ==
    /\ Quiescent
    /\ \A t \in TaskIds : task[t] # None => Unwrap(task[t]).node # n
    /\ signatures[n] # {} \/ next_service[n] # <<>>
    /\ signatures' = [signatures EXCEPT ![n] = {}]
    /\ next_service' = [next_service EXCEPT ![n] = <<>>]
    /\ UNCHANGED <<now, store, peer_manager, outbound, task, service, average_latency>>

\* the request at the head of a node's outbound channel is transmitted to the node it is
\* addressed to, whose DHT layer decrypts it and constructs the task; the request stays
\* where it is until the channel's reader takes it, so it may be transmitted again
Deliver(t, from, config) ==
    /\ outbound[from] # <<>>
    /\ LET out == Head(outbound[from])
       IN \E n \in Nodes \ {from} :
             /\ \/ out.broadcast_strategy = DirectPublicKey(PublicKeyOf(n))
                \/ out.broadcast_strategy = DirectNodeId(NodeIdOf(n))
                \/ out.broadcast_strategy = Flood
             /\ NewTask(t, n, config, DecryptedDhtMessage(out.message_type, from, FALSE, out.body))

(***************************************************************************)
(* SpecE2E: the holder stores messages for the receiver, answers the        *)
(* receiver's requests, and its responses reach the receiver once or more  *)
(* often, also while an earlier delivery is still being handled.           *)
(***************************************************************************)
StoredAt(m, t) == [m EXCEPT !.stored_at = Some(t)]
E2EStoredMessages ==
    {StoredAt(WellFormed(Origin, Receiver, 1, ReceiverId), t) : t \in Times}
    \cup {StoredAt(WellFormed(Origin, Receiver, 2, ReceiverId), MaxTime),
          WellFormed(Origin, Receiver, 1, DestUnknown),
          WellFormed(Origin, Receiver, 1, DestPublicKey(PublicKeyOf(Origin)))}

E2ERequests ==
    {DecryptedDhtMessage(SafRequestMessages, Receiver, FALSE, StoredMessagesRequest(since)) :
        since \in OptTimes}

NextE2E ==
    \/ /\ outbound[Holder] = <<>> /\ \A t \in TaskIds : task[t] = None
       /\ \E m \in E2EStoredMessages, ttl \in {0, MaxTime + 1} : StoreInsert(Holder, m, ttl)
    \/ /\ outbound[Holder] = <<>>
       /\ \E c \in ReqConfigs, m \in E2ERequests : NewTask("t1", Holder, c, m)
    \/ \E failing \in BOOLEAN : RunRequest("t1", failing)
    \/ \E t \in TaskIds, c \in RespConfigs : Deliver(t, Holder, c)
    \/ OutboundRecv(Holder)
    \/ \E t \in TaskIds : RunStored(t)
    \/ \E t \in TaskIds, i \in 1 .. MaxBatch, actor_fails \in BOOLEAN :
          ProcessCheck(t, i, FALSE, actor_fails)
    \/ \E t \in TaskIds, i \in 1 .. MaxBatch : ProcessDecrypt(t, i)
    \/ \E t \in TaskIds : Forward(t, TRUE)
    \/ \E t \in TaskIds : FinishStored(t)
    \/ \E t \in TaskIds : EndTask(t)
    \/ RetentionHorizon(Receiver)

SpecE2E == Init /\ [][NextE2E]_vars

(***************************************************************************)
(* SpecConc: the receiver handles two responses at a time, whose stored    *)
(* messages share origin signatures within a batch and across the batches; *)
(* the signature record is evicted only while nothing is being handled.    *)
(***************************************************************************)
ConcStoredMessages ==
    {WellFormed(Origin, Receiver, 1, ReceiverId),
     WellFormed(Origin, Receiver, 2, ReceiverId),
     Stored(Origin, Receiver, 1, Some(ReceiverId), sign(Origin, Sealed(Origin, Receiver, 1)), {})}

ConcResponses ==
    {DecryptedDhtMessage(SafStoredMessages, Holder, FALSE, StoredMessagesResponse(batch)) :
        batch \in SeqsUpTo(ConcStoredMessages, MaxResp)}

NextConc ==
    \/ \E t \in TaskIds, c \in RespConfigs, m \in ConcResponses : NewTask(t, Receiver, c, m)
    \/ \E t \in TaskIds : RunStored(t)
    \/ \E t \in TaskIds, i \in 1 .. MaxResp, actor_fails \in BOOLEAN :
          ProcessCheck(t, i, FALSE, actor_fails)
    \/ \E t \in TaskIds, i \in 1 .. MaxResp : ProcessDecrypt(t, i)
    \/ \E t \in TaskIds : Forward(t, TRUE)
    \/ \E t \in TaskIds : FinishStored(t)
    \/ \E t \in TaskIds : EndTask(t)
    \/ RetentionHorizon(Receiver)

SpecConc == Init /\ [][NextConc]_vars

(***************************************************************************)
(* SpecRun: run() on every kind of message: requests and responses that    *)
(* decrypted or did not, with a payload that decodes, is absent or does    *)
(* not decode, and messages that are not SAF messages.                     *)
(***************************************************************************)
RunStoredMessages ==
    {WellFormed(Origin, Receiver, p, ReceiverId) : p \in EnvelopeBodies}
    \cup {WellFormed(Origin, Receiver, 1, DestUnknown)}

RunBodies(message_type) ==
    {NoPart, Undecodable}
    \cup CASE message_type = SafRequestMessages -> {StoredMessagesRequest(since) : since \in {None, Some(0)}}
           [] message_type = SafStoredMessages ->
                {StoredMessagesResponse(<<WellFormed(Origin, Holder, 1, DestUnknown)>>)}
           [] OTHER -> {Payload(1)}

RunMessages ==
    {DecryptedDhtMessage(ty, src, df, b) :
        ty \in {SafRequestMessages}, src \in {Receiver, Stranger}, df \in BOOLEAN,
        b \in RunBodies(SafRequestMessages)}
    \cup {DecryptedDhtMessage(ty, Receiver, df, b) :
            ty \in {SafStoredMessages}, df \in BOOLEAN, b \in RunBodies(SafStoredMessages)}
    \cup {DecryptedDhtMessage(ty, Receiver, df, b) :
            ty \in {OtherMessageType, Join}, df \in BOOLEAN, b \in RunBodies(OtherMessageType)}

NextRun ==
    \/ /\ outbound[Holder] = <<>> /\ \A t \in TaskIds : task[t] = None
       /\ \E m \in RunStoredMessages : StoreInsert(Holder, m, MaxTime + 1)
    \/ /\ outbound[Holder] = <<>> /\ next_service[Holder] = <<>> /\ signatures[Holder] = {}
       /\ \E c \in ReqConfigs, m \in RunMessages : NewTask("t1", Holder, c, m)
    \/ RunDiscard("t1")
    \/ \E failing \in BOOLEAN : RunRequest("t1", failing)
    \/ \E ok \in BOOLEAN : RunOther("t1", ok)
    \/ RunStored("t1")
    \/ \E actor_fails \in BOOLEAN : ProcessCheck("t1", 1, FALSE, actor_fails)
    \/ ProcessDecrypt("t1", 1)
    \/ \E ok \in BOOLEAN : Forward("t1", ok)
    \/ FinishStored("t1")
    \/ EndTask("t1")
    \/ OutboundRecv(Holder)
    \/ RetentionHorizon(Holder)

SpecRun == Init /\ [][NextRun]_vars

(***************************************************************************)
(* SpecInbound: the inbound message service of the holder, fed with frame  *)
(* sets that pass or fail each check of process_message, with a sink that  *)
(* is read, fills up or is closed, and a shutdown signal that fires at any *)
(* time.                                                                   *)
(***************************************************************************)
InboundSignature == sign(Origin, 1)
\* a frame set that passes every check; one from a connection of an unknown peer;
\* one whose signature is another key's; one whose signature bytes are malformed;
\* one that does not deserialize
InboundFrameSets ==
    {FrameSet(NodeIdOf(src), Some(MessageEnvelopeHeader(Origin, InboundSignature)), 1) :
        src \in {Origin, Stranger}}
    \cup {FrameSet(NodeIdOf(Origin), Some(MessageEnvelopeHeader(Origin, sign(Stranger, 1))), 1)}
    \cup {FrameSet(NodeIdOf(Origin),
                   Some(MessageEnvelopeHeader(Origin, [InboundSignature EXCEPT !.malformed = TRUE])), 1)}
    \cup {FrameSet(NodeIdOf(Origin), None, 1)}

NextInbound ==
    \/ ServiceRun
    \/ \E f \in InboundFrameSets : RawMessageSend(f)
    \/ ShutdownTrigger
    \/ SelectNextSome
    \/ SinkSend
    \/ SelectShutdown
    \/ MessageCacheExpire
    \/ SinkRecv
    \/ SinkClose

SpecInbound == Init /\ [][NextInbound]_vars

\* the scheduling of the run loop: the task that runs run() is polled; a send into
\* the sink returns once the sink has room or is closed, and the sink's receiver
\* keeps reading until it is dropped; select! picks among the branches that are
\* ready at random, so the shutdown branch is not passed over forever
FairSpecInbound ==
    /\ SpecInbound
    /\ WF_vars(ServiceRun)
    /\ WF_vars(SinkSend)
    /\ WF_vars(SinkRecv)
    /\ SF_vars(SelectShutdown)

(***************************************************************************)
(* SpecLate: the response handler of the receiver, fed with stored         *)
(* messages that pass every check up to the duplicate check and then do    *)
(* not decrypt or come from an origin the receiver gets to know only       *)
(* later; the dedup record keeps its entries throughout.                   *)
(***************************************************************************)
LateStoredMessages ==
    {WellFormed(Stranger, Receiver, 1, ReceiverId), WellFormed(Origin, Holder, 1, DestUnknown)}

LateMessages ==
    {DecryptedDhtMessage(SafStoredMessages, Holder, FALSE, StoredMessagesResponse(batch)) :
        batch \in SeqsUpTo(LateStoredMessages, MaxResp)}

NextLate ==
    \/ \E c \in RespConfigs, m \in LateMessages : NewTask("t2", Receiver, c, m)
    \/ RunStored("t2")
    \/ \E i \in 1 .. MaxResp : ProcessCheck("t2", i, FALSE, FALSE)
    \/ \E i \in 1 .. MaxResp : ProcessDecrypt("t2", i)
    \/ \E ok \in BOOLEAN : Forward("t2", ok)
    \/ FinishStored("t2")
    \/ EndTask("t2")
    \/ TakeRequests(Receiver)
    \/ AddPeer(Receiver, Stranger)

SpecLate == Init /\ [][NextLate]_vars

(***************************************************************************)
(* SpecPeers: the inbound message service of the holder, fed over the      *)
(* connection of a peer that its peer manager gets to know only later.     *)
(***************************************************************************)
\* a frame set that passes the signature check, and one whose signature is
\* another key's
PeerFrameSets ==
    {FrameSet(NodeIdOf(Stranger), Some(MessageEnvelopeHeader(Origin, sig)), 1) :
        sig \in {InboundSignature, sign(Stranger, 1)}}

NextPeers ==
    \/ ServiceRun
    \/ \E f \in PeerFrameSets : RawMessageSend(f)
    \/ SelectNextSome
    \/ SinkSend
    \/ MessageCacheExpire
    \/ SinkRecv
    \/ AddPeer(Holder, Stranger)

SpecPeers == Init /\ [][NextPeers]_vars

(***************************************************************************)
(* SpecLatency: samples of every length are added to the latency record of *)
(* a peer.                                                                 *)
(***************************************************************************)
\* add_latency_sample (state.rs:128-137) for a pong that came back after `sample`
AddSample(sample) ==
    /\ average_latency' = add_sample(average_latency, sample)
    /\ UNCHANGED <<saf_vars, service>>

NextLatency == \E sample \in Durations : AddSample(sample)

SpecLatency == Init /\ [][NextLatency]_vars

(***************************************************************************)
(* Properties of the request handler. They are read off a finished request *)
(* task of the holder: its message and configuration, the store it ran on  *)
(* and what it put on the outbound channel.                                *)
(***************************************************************************)
ReqTask == Unwrap(task["t1"])
ReqSource == ReqTask.message.source_peer
ReqSince == ReqTask.message.body.since
ReqMax == ReqTask.config.saf_max_returned_messages

\* run() returned for a decrypted, decodable SafRequestMessages message
ReqHandled ==
    /\ IsDone("t1")
    /\ ReqTask.node = Holder
    /\ ReqTask.message.message_type = SafRequestMessages
    /\ ~ReqTask.message.decryption_failed
    /\ ReqTask.message.body.kind = "StoredMessagesRequest"

\* ... and a response went out
ReqAnswered == ReqHandled /\ outbound[Holder] # <<>>
Resp == outbound[Holder][1].body.messages
InResp(m) == \E j \in 1 .. Len(Resp) : Resp[j] = m

HeldIdx == 1 .. Len(store[Holder])
Held(i) == store[Holder][i].value
Live(i) == store[Holder][i].expiration > now

DestTag(m) ==
    IF m.dht_header = None THEN "NoHeader"
    ELSE IF Unwrap(m.dht_header).destination = None THEN "NoDestination"
    ELSE Unwrap(Unwrap(m.dht_header).destination).tag
DestVal(m) == Unwrap(Unwrap(m.dht_header).destination).val

\* the two filters as section 4.2 of the specification words them
TimeOk(since, m) ==
    since = None \/ (m.stored_at # None /\ Unwrap(m.stored_at) >= Unwrap(since))
DestOk(source_peer, m) ==
    \/ DestTag(m) = "Unknown"
    \/ DestTag(m) = "PublicKey" /\ DestVal(m) = source_peer.public_key
    \/ DestTag(m) = "NodeId" /\ DestVal(m) = source_peer.node_id

PassIdx == {i \in HeldIdx : Live(i) /\ TimeOk(ReqSince, Held(i)) /\ DestOk(ReqSource, Held(i))}
\* the position of entry i among the entries that pass, in iteration order
Rank(i) == Cardinality({j \in PassIdx : j <= i})

RegionSays(n, source_peer, config) ==
    in_network_region([known |-> peer_manager[n], failing |-> FALSE], source_peer.node_id,
                      NodeIdOf(n), config.saf_num_closest_nodes)

\* C3: a request whose source in_network_region reports outside the region (fan-out
\* saf_num_closest_nodes) puts nothing on the outbound channel
C3_RegionFilter ==
    (ReqHandled /\ RegionSays(Holder, ReqSource, ReqTask.config) = "false")
        => outbound[Holder] = <<>>

C3_Witness ==
    /\ ReqHandled
    /\ RegionSays(Holder, ReqSource, ReqTask.config) = "false"
    /\ ReqTask.result = "Ok"
    /\ ReqMax > 0
    /\ PassIdx # {}
    /\ outbound[Holder] = <<>>

\* C4, as stated: a held message with destination PublicKey(pk) (NodeId(id)) is in the
\* response to source S if and only if S.public_key = pk (S.node_id = id)
C4_AsStated ==
    ReqAnswered =>
        \A i \in HeldIdx :
            /\ DestTag(Held(i)) = "PublicKey" =>
                   (InResp(Held(i)) <=> DestVal(Held(i)) = ReqSource.public_key)
            /\ DestTag(Held(i)) = "NodeId" =>
                   (InResp(Held(i)) <=> DestVal(Held(i)) = ReqSource.node_id)

\* C4, amended: a held message with destination PublicKey(pk) (NodeId(id)) is in the
\* response to source S if and only if S.public_key = pk (S.node_id = id) and it is not
\* expired, passes the time filter and is among the first saf_max_returned_messages
\* messages that pass
C4_DestinationFiltering ==
    ReqAnswered =>
        \A i \in HeldIdx :
            /\ DestTag(Held(i)) = "PublicKey" =>
                   (InResp(Held(i)) <=>
                        /\ DestVal(Held(i)) = ReqSource.public_key
                        /\ Live(i) /\ TimeOk(ReqSince, Held(i)) /\ Rank(i) <= ReqMax)
            /\ DestTag(Held(i)) = "NodeId" =>
                   (InResp(Held(i)) <=>
                        /\ DestVal(Held(i)) = ReqSource.node_id
                        /\ Live(i) /\ TimeOk(ReqSince, Held(i)) /\ Rank(i) <= ReqMax)

C4_Witness ==
    /\ ReqAnswered
    /\ \E i, j \in HeldIdx :
          /\ DestTag(Held(i)) = "PublicKey" /\ DestVal(Held(i)) = ReqSource.public_key
          /\ InResp(Held(i))
          /\ DestTag(Held(j)) = "NodeId" /\ DestVal(Held(j)) # ReqSource.node_id
          /\ ~InResp(Held(j))

\* C5: a held message with destination Unknown passes the destination filter whoever
\* asks: it is left out of a response only by expiry, the time filter or the cap
C5_UnknownAlwaysMatches ==
    ReqAnswered =>
        \A i \in HeldIdx :
            DestTag(Held(i)) = "Unknown" =>
                /\ destination_filter(ReqSource, Held(i))
                /\ (Live(i) /\ TimeOk(ReqSince, Held(i)) /\ Rank(i) <= ReqMax) => InResp(Held(i))

C5_Witness ==
    /\ ReqAnswered
    /\ \E i \in HeldIdx : DestTag(Held(i)) = "Unknown" /\ InResp(Held(i))
    /\ \E j \in HeldIdx :
          /\ DestTag(Held(j)) = "PublicKey" /\ DestVal(Held(j)) # ReqSource.public_key
          /\ ~InResp(Held(j)) /\ j < Len(store[Holder])

\* C6: without since the time filter excludes nothing; with since = T it keeps a
\* message exactly when its stored_at is at or after T
C6_TimeWindow ==
    ReqAnswered =>
        \A i \in HeldIdx :
            LET m == Held(i)
                kept == since_filter(ReqSince, m)
            IN /\ ReqSince = None => kept
               /\ ReqSince # None =>
                      (kept <=> (m.stored_at # None /\ Unwrap(m.stored_at) >= Unwrap(ReqSince)))
               /\ InResp(m) => kept
               /\ (kept /\ Live(i) /\ DestOk(ReqSource, m) /\ Rank(i) <= ReqMax) => InResp(m)

C6_Witness ==
    /\ ReqAnswered
    /\ ReqSince # None
    /\ \E i, j \in HeldIdx :
          /\ DestTag(Held(i)) = "Unknown" /\ DestTag(Held(j)) = "Unknown"
          /\ Held(i).stored_at # None /\ Unwrap(Held(i).stored_at) < Unwrap(ReqSince)
          /\ ~InResp(Held(i))
          /\ Held(j).stored_at = ReqSince
          /\ InResp(Held(j))

\* C7: the response holds exactly the first min(k, saf_max_returned_messages) of the k
\* held messages that pass both filters, in the store's iteration order
C7_BatchCap ==
    ReqAnswered =>
        /\ Len(Resp) = Min(Cardinality(PassIdx), ReqMax)
        /\ Len(Resp) <= ReqMax
        /\ \A j \in 1 .. Len(Resp) : \E i \in PassIdx : Rank(i) = j /\ Resp[j] = Held(i)

C7_Witness ==
    /\ ReqAnswered
    /\ ReqMax > 0
    /\ Cardinality(PassIdx) > ReqMax
    /\ Len(Resp) = ReqMax
    /\ \E i \in PassIdx : ~InResp(Held(i))

\* run() returned for a decodable request of a source in the region, under a
\* configuration with saf_max_returned_messages = 0
ZeroBatch ==
    /\ ReqHandled
    /\ ReqMax = 0
    /\ ReqTask.region_err = {}
    /\ RegionSays(Holder, ReqSource, ReqTask.config) = "true"

C9_DirectResponse ==
    ReqHandled =>
        \A j \in 1 .. Len(outbound[Holder]) :
            LET r == outbound[Holder][j]
            IN /\ r.broadcast_strategy = DirectPublicKey(ReqSource.public_key)
               /\ is_direct(r.broadcast_strategy)
               /\ r.message_type = SafStoredMessages
               /\ r.encryption = "EncryptForDestination"

C9_Witness ==
    /\ ReqAnswered
    /\ Len(Resp) > 0
    /\ outbound[Holder][1].broadcast_strategy.public_key = PublicKeyOf(Receiver)

\* C8: an entry whose TTL has elapsed (TTL 0: at once) is in no response, removed from
\* the store or not; an unexpired entry that matches the request is in the response
C8_TtlExpiry ==
    ReqAnswered =>
        \A i \in HeldIdx :
            /\ store[Holder][i].expiration <= now => ~InResp(Held(i))
            /\ (store[Holder][i].expiration > now /\ TimeOk(ReqSince, Held(i))
                    /\ DestOk(ReqSource, Held(i)) /\ Rank(i) <= ReqMax) => InResp(Held(i))

C8_Witness ==
    /\ ReqAnswered
    /\ \E i, j \in HeldIdx :
          /\ store[Holder][i].expiration <= now
          /\ TimeOk(ReqSince, Held(i)) /\ DestOk(ReqSource, Held(i))
          /\ ~InResp(Held(i))
          /\ i < j
          /\ store[Holder][j].expiration > now
          /\ InResp(Held(j))

(***************************************************************************)
(* Properties of the response handler, read off the receiver's task: the   *)
(* batch it holds, the state of the per-message futures and what reached   *)
(* the downstream service.                                                 *)
(***************************************************************************)
RespTask == Unwrap(task["t2"])
RespActive ==
    /\ task["t2"] # None
    /\ RespTask.node = Receiver
    /\ RespTask.message.message_type = SafStoredMessages
    /\ RespTask.pc \in {"processing", "done"}
    /\ RespTask.results # <<>>
RespDone == RespActive /\ RespTask.pc = "done"
Batch == RespTask.message.body.messages
BatchIdx == 1 .. Len(Batch)
Status(i) == RespTask.results[i].status

HasHeader(m) == m.dht_header # None /\ Unwrap(m.dht_header).destination # None
Hdr(m) == Unwrap(m.dht_header)

\* the request handed downstream is the stored message m, decrypted
IsRecovered(request, m) ==
    /\ request.dht_header = Hdr(m)
    /\ request.encrypted_body = m.encrypted_body
Forwards(n, m) == {j \in 1 .. Len(next_service[n]) : IsRecovered(next_service[n][j].request, m)}

\* the destinations section 4.3 of the specification accepts: Unknown, the local public
\* key, the local node id, a node id in whose region the local node is
InRegionOf(n, id, config) ==
    in_network_region([known |-> peer_manager[n], failing |-> FALSE], NodeIdOf(n), id,
                      config.num_neighbouring_nodes) = "true"
Acceptable(n, m, config) ==
    \/ DestTag(m) = "Unknown"
    \/ DestTag(m) = "PublicKey" /\ DestVal(m) = PublicKeyOf(n)
    \/ DestTag(m) = "NodeId" /\ DestVal(m) = NodeIdOf(n)
    \/ DestTag(m) = "NodeId" /\ InRegionOf(n, DestVal(m), config)

\* C10: a stored message with another destination than Unknown, the local public key,
\* the local node id or a node id whose region holds the local node is rejected with
\* InvalidDestination and never handed downstream; a failed region query rejects too
C10_DestinationCheck ==
    RespActive =>
        /\ \A i \in BatchIdx :
              (HasHeader(Batch[i]) /\ IsFinal(RespTask.results[i])) =>
                  /\ ~Acceptable(Receiver, Batch[i], RespTask.config) => Status(i) = "InvalidDestination"
                  /\ Status(i) = "InvalidDestination" =>
                         (~Acceptable(Receiver, Batch[i], RespTask.config) \/ i \in RespTask.region_err)
                  /\ i \in RespTask.region_err => Status(i) = "InvalidDestination"
        /\ \A j \in 1 .. Len(next_service[Receiver]) :
              \E i \in BatchIdx :
                  /\ HasHeader(Batch[i])
                  /\ IsRecovered(next_service[Receiver][j].request, Batch[i])
                  /\ Acceptable(Receiver, Batch[i], RespTask.config)
                  /\ i \notin RespTask.region_err

C10_Witness ==
    /\ RespDone
    /\ Len(Batch) = 2
    /\ DestTag(Batch[1]) = "NodeId" /\ DestVal(Batch[1]) = NodeIdOf(Stranger)
    /\ Status(1) = "InvalidDestination"
    /\ 1 \notin RespTask.region_err
    /\ DestTag(Batch[2]) = "NodeId" /\ DestVal(Batch[2]) = NodeIdOf(Holder)
    /\ Status(2) = "Ok"
    /\ Forwards(Receiver, Batch[2]) # {}
    /\ Forwards(Receiver, Batch[1]) = {}

\* what the claim calls corrupted: a header whose signature does not verify
BadSignature(m) ==
    /\ HasHeader(m)
    /\ signature_verify(Hdr(m).origin_public_key, Hdr(m).origin_signature, m.encrypted_body) # "true"

\* what the claim calls well-formed: every check of message i passes
PassesAllChecks(i) ==
    LET m == Batch[i]
    IN /\ HasHeader(m)
       /\ Acceptable(Receiver, m, RespTask.config) /\ i \notin RespTask.region_err
       /\ signature_verify(Hdr(m).origin_public_key, Hdr(m).origin_signature, m.encrypted_body) = "true"
       /\ ENCRYPTED \in Hdr(m).flags
       \* new signature: the DHT actor answers, and no other message of the batch bears it
       /\ Status(i) # "DhtActorError"
       /\ \A j \in BatchIdx \ {i} : HasHeader(Batch[j]) =>
              Hdr(Batch[j]).origin_signature # Hdr(m).origin_signature
       /\ EnvelopeBody_decode(decrypt(generate_ecdh_secret(SecretKey(Receiver), Hdr(m).origin_public_key),
                                      m.encrypted_body)) # None
       /\ \E p \in peer_manager[Receiver] : PublicKeyOf(p) = Hdr(m).origin_public_key

\* C2: in a batch with one message of bad signature, wherever it is, and the others
\* passing every check, each of the others was handed downstream once the handler is done
C2_BatchIsolation ==
    RespDone =>
        \A bad \in BatchIdx :
            (BadSignature(Batch[bad]) /\ \A i \in BatchIdx \ {bad} : PassesAllChecks(i)) =>
                /\ Forwards(Receiver, Batch[bad]) = {}
                /\ \A i \in BatchIdx \ {bad} :
                      Status(i) = "Ok" /\ Cardinality(Forwards(Receiver, Batch[i])) = 1
                /\ Len(next_service[Receiver]) = Len(Batch) - 1

C2_Witness ==
    /\ RespDone
    /\ Len(Batch) = MaxResp
    /\ BadSignature(Batch[1]) /\ Status(1) = "InvalidSignature"
    /\ \A i \in BatchIdx \ {1} : PassesAllChecks(i) /\ Forwards(Receiver, Batch[i]) # {}

(***************************************************************************)
(* Properties of the whole exchange, read off the holder's request task,   *)
(* every task of the receiver that handles a delivered response, the       *)
(* receiver's signature record and its downstream log.                     *)
(***************************************************************************)
Handling(t) ==
    /\ task[t] # None
    /\ Unwrap(task[t]).node = Receiver
    /\ Unwrap(task[t]).message.message_type = SafStoredMessages
    /\ Unwrap(task[t]).results # <<>>
BatchOf(t) == Unwrap(task[t]).message.body.messages
StatusOf(t, i) == Unwrap(task[t]).results[i].status

\* the message of the scenario: addressed to the receiver's node id, with a time of storage
ForReceiver(m) ==
    /\ HasHeader(m)
    /\ DestTag(m) = "NodeId" /\ DestVal(m) = NodeIdOf(Receiver)
    /\ m.stored_at # None
\* the receiver holds the right keys and knows the origin
RightKeys(m) ==
    /\ EnvelopeBody_decode(decrypt(generate_ecdh_secret(SecretKey(Receiver), Hdr(m).origin_public_key),
                                   m.encrypted_body)) # None
    /\ \E p \in peer_manager[Receiver] : PublicKeyOf(p) = Hdr(m).origin_public_key
Authentic(m) ==
    /\ signature_verify(Hdr(m).origin_public_key, Hdr(m).origin_signature, m.encrypted_body) = "true"
    /\ ENCRYPTED \in Hdr(m).flags

\* the positions of the downstream log that hold a request with signature sig
SigForwards(n, sig) ==
    {j \in 1 .. Len(next_service[n]) : next_service[n][j].request.dht_header.origin_signature = sig}
\* another task of the receiver has let signature sig through and has yet to hand it on
AwaitsForward(t, sig) ==
    \E u \in TaskIds \ {t} :
        /\ Handling(u) /\ ~IsDone(u)
        /\ \E j \in 1 .. Len(BatchOf(u)) :
              /\ HasHeader(BatchOf(u)[j])
              /\ Hdr(BatchOf(u)[j]).origin_signature = sig
              /\ StatusOf(u, j) \in {"checked", "Ok"}

\* the request of the scenario has been handled: sent by the receiver, with a since
ScenarioRequest ==
    /\ ReqHandled
    /\ ReqSource = Peer(Receiver)
    /\ ReqSince # None

Verifies(m) ==
    signature_verify(Hdr(m).origin_public_key, Hdr(m).origin_signature, m.encrypted_body)
\* message i of the batch is past the destination check
PastDestination(i) ==
    /\ HasHeader(Batch[i])
    /\ Acceptable(Receiver, Batch[i], RespTask.config)
    /\ i \notin RespTask.region_err
\* no request handed downstream is message i of the batch
NeverForwarded(i) ==
    /\ Status(i) # "Ok"
    /\ RespTask.results[i].msg = None
    /\ Forwards(Receiver, Batch[i]) = {}

\* C11: a stored message whose signature does not verify over its encrypted body under
\* the origin public key, or whose verification raises an error, is never handed
\* downstream, and the signature check rejects it with InvalidSignature
C11_SignatureCheck ==
    RespActive =>
        \A i \in BatchIdx :
            (HasHeader(Batch[i]) /\ Verifies(Batch[i]) # "true" /\ IsFinal(RespTask.results[i])) =>
                /\ NeverForwarded(i)
                /\ PastDestination(i) => Status(i) = "InvalidSignature"
                /\ Hdr(Batch[i]).origin_signature \in signatures[Receiver] =>
                       \E j \in BatchIdx \ {i} :
                           /\ HasHeader(Batch[j])
                           /\ Hdr(Batch[j]).origin_signature = Hdr(Batch[i]).origin_signature

C11_Witness ==
    /\ RespDone
    /\ Len(Batch) = 2
    /\ HasHeader(Batch[1]) /\ Verifies(Batch[1]) = "false" /\ Status(1) = "InvalidSignature"
    /\ HasHeader(Batch[2]) /\ Verifies(Batch[2]) = "Err" /\ Status(2) = "InvalidSignature"
    /\ next_service[Receiver] = <<>>

\* C12: a stored message whose header lacks the ENCRYPTED flag is never handed
\* downstream, and the flag check rejects it with StoredMessageNotEncrypted, also when
\* every other check would pass
C12_FlagCheck ==
    RespActive =>
        \A i \in BatchIdx :
            (HasHeader(Batch[i]) /\ ENCRYPTED \notin Hdr(Batch[i]).flags /\ IsFinal(RespTask.results[i])) =>
                /\ NeverForwarded(i)
                /\ (PastDestination(i) /\ Verifies(Batch[i]) = "true") =>
                       Status(i) = "StoredMessageNotEncrypted"

\* the message lacks nothing but the flag
C12_Witness ==
    /\ RespDone
    /\ \E i \in BatchIdx :
          /\ PastDestination(i) /\ Verifies(Batch[i]) = "true" /\ RightKeys(Batch[i])
          /\ ENCRYPTED \notin Hdr(Batch[i]).flags
          /\ Hdr(Batch[i]).origin_signature \notin signatures[Receiver]
          /\ Status(i) = "StoredMessageNotEncrypted"
          /\ Forwards(Receiver, Batch[i]) = {}

\* the fingerprints the deduplication service is asked about
Fingerprints == {Hdr(m).origin_signature : m \in {x \in RespStoredMessages : HasHeader(x)}}
\* the errors of the checks that come before the duplicate check
EarlierErrors ==
    {"DhtHeaderNotProvided", "DhtMessageError", "InvalidDestination", "InvalidSignature",
     "StoredMessageNotEncrypted"}

\* two successive insertions of a fingerprint into any record the receiver reaches
TwiceInserted(sig) ==
    LET first == insert_message_signature(signatures[Receiver], sig)
        second == insert_message_signature(first.seen, sig)
    IN /\ sig \notin signatures[Receiver] => ~first.duplicate
       /\ second.duplicate
       /\ second.seen = first.seen
       /\ sig \notin signatures[Receiver] =>
              check_duplicate(signatures[Receiver], [origin_signature |-> sig]) = "Ok"
       /\ check_duplicate(first.seen, [origin_signature |-> sig]) = "DuplicateMessage"

\* a step in which message i of the batch gets the answer of the deduplication service
AnsweredStep(i) ==
    /\ RespActive /\ RespActive'
    /\ i \in BatchIdx
    /\ Status(i) = "pending"
    /\ Status(i)' \notin ({"pending", "DhtActorError"} \cup EarlierErrors)

\* C13: inserted twice with no eviction in between, a fingerprint is reported new (if it
\* was not there) and then duplicate; the handler turns the answer "duplicate" into
\* DuplicateMessage, and any other answer lets the message go on
C13_DedupIdempotence ==
    /\ [](\A sig \in Fingerprints : TwiceInserted(sig))
    /\ [][\A i \in 1 .. MaxResp : AnsweredStep(i) =>
            /\ Hdr(Batch[i]).origin_signature \in signatures[Receiver]'
            /\ (Status(i)' = "DuplicateMessage")
                   <=> (Hdr(Batch[i]).origin_signature \in signatures[Receiver])
            /\ (Status(i)' = "checked")
                   <=> (Hdr(Batch[i]).origin_signature \notin signatures[Receiver])]_vars

\* the same fingerprint twice in one batch: new once, duplicate once
C13_Witness ==
    /\ RespDone
    /\ Len(Batch) = 2
    /\ HasHeader(Batch[1]) /\ HasHeader(Batch[2])
    /\ Hdr(Batch[1]).origin_signature = Hdr(Batch[2]).origin_signature
    /\ Hdr(Batch[1]).origin_signature \in signatures[Receiver]
    /\ {Status(1), Status(2)} = {"Ok", "DuplicateMessage"}

(***************************************************************************)
(* Properties of concurrent handling, read off every stored message the    *)
(* receiver's tasks hold (an instance: a task and a position of its        *)
(* batch), the signature record and the downstream log.                    *)
(***************************************************************************)
Instances == {<<t, i>> \in TaskIds \X (1 .. MaxResp) : Handling(t) /\ i <= Len(BatchOf(t))}
SigOf(x) == Hdr(BatchOf(x[1])[x[2]]).origin_signature
\* the instance has passed the destination, signature and flag checks and has the
\* answer of the deduplication service
Answered(x) ==
    /\ HasHeader(BatchOf(x[1])[x[2]])
    /\ StatusOf(x[1], x[2]) \notin ({"pending", "DhtActorError"} \cup EarlierErrors)
TreatedAsNew(x) == Answered(x) /\ StatusOf(x[1], x[2]) # "DuplicateMessage"
Dropped(x) == Answered(x) /\ StatusOf(x[1], x[2]) = "DuplicateMessage"

\* C14: of the stored messages handled at the same time that carry one origin
\* signature and pass the destination, signature and flag checks, whether in one batch
\* or in two responses, the first to be answered is treated as new and every other one is
\* dropped as DuplicateMessage, in every interleaving; no signature is forwarded twice
C14_DedupAtomicity ==
    /\ [](/\ \A x, y \in Instances :
                (TreatedAsNew(x) /\ TreatedAsNew(y) /\ SigOf(x) = SigOf(y)) => x = y
          /\ \A x \in Instances : Answered(x) => SigOf(x) \in signatures[Receiver]
          /\ \A j1, j2 \in 1 .. Len(next_service[Receiver]) :
                next_service[Receiver][j1].request.dht_header.origin_signature
                    = next_service[Receiver][j2].request.dht_header.origin_signature => j1 = j2)
    /\ [][\A x \in Instances :
            (x \in Instances' /\ ~Answered(x) /\ Answered(x)') =>
                /\ TreatedAsNew(x)' <=> SigOf(x) \notin signatures[Receiver]
                /\ Dropped(x)' <=> SigOf(x) \in signatures[Receiver]
                /\ (\E y \in Instances \ {x} : TreatedAsNew(y) /\ SigOf(y) = SigOf(x)) => Dropped(x)']_vars

\* two responses handled at once hold the same message: one task was answered "new" and
\* has yet to forward, the other has finished with DuplicateMessage
C14_Witness ==
    \E t, u \in TaskIds :
        /\ t # u /\ Handling(t) /\ Handling(u)
        /\ IsDone(t) /\ ~IsDone(u)
        /\ Dropped(<<t, 1>>) /\ TreatedAsNew(<<u, 1>>)
        /\ SigOf(<<t, 1>>) = SigOf(<<u, 1>>)
        /\ next_service[Receiver] = <<>>

\* message i of the batch is past the destination, signature, flag and duplicate checks
PastDuplicate(i) ==
    /\ PastDestination(i)
    /\ Verifies(Batch[i]) = "true"
    /\ ENCRYPTED \in Hdr(Batch[i]).flags
    /\ Status(i) \notin {"pending", "checked", "DuplicateMessage", "DhtActorError"}
Decrypts(m) ==
    EnvelopeBody_decode(decrypt(generate_ecdh_secret(SecretKey(Receiver), Hdr(m).origin_public_key),
                                m.encrypted_body)) # None

KnownOrigin(m) == \E p \in peer_manager[Receiver] : PublicKeyOf(p) = Hdr(m).origin_public_key

\* C16: a stored message whose origin public key is not in the peer directory is never
\* handed downstream, and the peer lookup drops it with PeerNotFoundError; every request
\* handed downstream carries the directory's peer of its own origin public key
C16_PeerResolution ==
    RespActive =>
        /\ \A i \in BatchIdx :
              (HasHeader(Batch[i]) /\ ~KnownOrigin(Batch[i]) /\ IsFinal(RespTask.results[i])) =>
                  /\ NeverForwarded(i)
                  /\ (PastDuplicate(i) /\ Decrypts(Batch[i])) => Status(i) = "PeerNotFoundError"
        /\ \A j \in 1 .. Len(next_service[Receiver]) :
              LET request == next_service[Receiver][j].request
              IN \E p \in peer_manager[Receiver] :
                    /\ PublicKeyOf(p) = request.dht_header.origin_public_key
                    /\ request.source_peer = Peer(p)

\* a message of an unknown origin is dropped next to one of a known origin
C16_Witness ==
    /\ RespDone
    /\ Len(Batch) = 2
    /\ PastDuplicate(1) /\ Decrypts(Batch[1]) /\ ~KnownOrigin(Batch[1])
    /\ Status(1) = "PeerNotFoundError"
    /\ Forwards(Receiver, Batch[1]) = {}
    /\ Status(2) = "Ok" /\ KnownOrigin(Batch[2])
    /\ Len(next_service[Receiver]) = 1
    /\ next_service[Receiver][1].request.source_peer = Peer(Origin)

\* the round trip between key pairs a and b for plaintext P
RoundTrip(a, b, P) ==
    /\ generate_ecdh_secret(SecretKey(a), PublicKeyOf(b)) = generate_ecdh_secret(SecretKey(b), PublicKeyOf(a))
    /\ decrypt(generate_ecdh_secret(SecretKey(a), PublicKeyOf(b)),
               encrypt(generate_ecdh_secret(SecretKey(b), PublicKeyOf(a)), P)) = P

\* C17: the secrets derived from (A.secret, B.public) and from (B.secret, A.public) are
\* equal, and decrypting under the one what was encrypted under the other gives back the
\* plaintext; so the receiver recovers exactly the body that the origin sealed for it
C17_EncryptionRoundTrip ==
    /\ \A a, b \in Peers, P \in CipherTexts : RoundTrip(a, b, P)
    /\ RespActive =>
          \A i \in BatchIdx, o \in Peers, P \in EnvelopeBodies :
              ( /\ PastDuplicate(i)
                /\ Hdr(Batch[i]).origin_public_key = PublicKeyOf(o)
                /\ Batch[i].encrypted_body = Sealed(o, Receiver, P) ) =>
                  /\ Status(i) # "DecryptionFailed"
                  /\ Status(i) = "Ok" => Unwrap(RespTask.results[i].msg).decrypted_body = P
    /\ \A j \in 1 .. Len(next_service[Receiver]) :
          LET request == next_service[Receiver][j].request
          IN encrypt(generate_ecdh_secret(SecretKey(Receiver), request.dht_header.origin_public_key),
                     request.decrypted_body) = request.encrypted_body

\* both bodies the origin sealed for the receiver have come out as they went in
C17_Witness ==
    /\ RespDone
    /\ Len(next_service[Receiver]) = 2
    /\ \A j \in 1 .. 2 :
          LET request == next_service[Receiver][j].request
          IN /\ request.encrypted_body = Sealed(Origin, Receiver, request.decrypted_body)
             /\ request.encrypted_body # request.decrypted_body
    /\ next_service[Receiver][1].request.decrypted_body # next_service[Receiver][2].request.decrypted_body

\* C18: when every stored message of a batch passes all checks and the origin signatures
\* differ from each other, the finished handler has called the downstream service once
\* per stored message, each call with the decrypted body of another stored message, and
\* the DHT actor once per stored message
C18_OneCallPerMessage ==
    (RespDone /\ \A i \in BatchIdx : PassesAllChecks(i)) =>
        /\ Len(next_service[Receiver]) = Len(Batch)
        /\ \A i \in BatchIdx :
              /\ Cardinality(Forwards(Receiver, Batch[i])) = 1
              /\ \A j \in Forwards(Receiver, Batch[i]) :
                    Some(next_service[Receiver][j].request.decrypted_body)
                        = try_decrypt(NodeIdentity(Receiver), Hdr(Batch[i]), Batch[i].encrypted_body)
        /\ \A i1, i2 \in BatchIdx :
              Forwards(Receiver, Batch[i1]) \cap Forwards(Receiver, Batch[i2]) # {} => i1 = i2
        /\ RespTask.actor_calls = Len(Batch)

\* the batch of the test: two messages of a known origin, bodies "A" and "B"
C18_Witness ==
    /\ RespDone
    /\ Len(Batch) = MaxResp
    /\ \A i \in BatchIdx : PassesAllChecks(i)
    /\ Len(next_service[Receiver]) = MaxResp
    /\ RespTask.actor_calls = MaxResp
    /\ {next_service[Receiver][j].request.decrypted_body : j \in 1 .. 2} = EnvelopeBodies

\* the stored messages of the batch whose processing returned Ok, and the calls of
\* the next service that failed
OkIdx == {i \in BatchIdx : Status(i) = "Ok"}
Calls == 1 .. Len(next_service[Receiver])
FailedCalls == {j \in Calls : ~next_service[Receiver][j].ok}

\* C22: when calls of the next service have failed, the finished handler has still
\* called it for every stored message whose processing returned Ok, once each, the
\* calls after a failed one included, and run() has returned Ok
C22_DownstreamFailureIsolation ==
    (RespDone /\ FailedCalls # {}) =>
        /\ RespTask.result = "Ok"
        /\ Len(next_service[Receiver]) = Cardinality(OkIdx)
        /\ RespTask.forwarded = Cardinality(OkIdx)
        /\ \A i \in OkIdx : Forwards(Receiver, Batch[i]) # {}
        /\ \A i \in BatchIdx : IsFinal(RespTask.results[i])

\* the first call failed and the call for the next message was made all the same
C22_Witness ==
    /\ RespDone
    /\ Cardinality(OkIdx) = MaxResp
    /\ 1 \in FailedCalls
    /\ Len(next_service[Receiver]) = MaxResp
    /\ next_service[Receiver][MaxResp].ok
    /\ RespTask.result = "Ok"

\* C23: run() returns Ok for every response that decodes, however many of its stored
\* messages failed; every stored message has been processed to its own result,
\* and a failed one has not kept a sibling from being processed or handed on
C23_ErrorsNeverEscape ==
    RespDone =>
        /\ RespTask.result = "Ok"
        /\ Len(RespTask.results) = Len(Batch)
        /\ \A i \in BatchIdx :
              /\ IsFinal(RespTask.results[i])
              /\ Status(i) = "Ok" => Forwards(Receiver, Batch[i]) # {}

\* every stored message of the batch failed, each with another error
C23_Witness ==
    /\ RespDone
    /\ Len(Batch) = MaxResp
    /\ OkIdx = {}
    /\ Cardinality({Status(i) : i \in BatchIdx}) = MaxResp
    /\ RespTask.result = "Ok"
    /\ next_service[Receiver] = <<>>

\* C28: while a stored message of the batch is still being processed the next
\* service has not been called for any message of the batch; and what it is
\* called with afterwards are the messages whose processing returned Ok
C28_ValidateAllThenForward ==
    RespActive =>
        /\ (\E i \in BatchIdx : ~IsFinal(RespTask.results[i])) =>
               (next_service[Receiver] = <<>> /\ RespTask.forwarded = 0)
        /\ \A j \in Calls : \E i \in OkIdx : j \in Forwards(Receiver, Batch[i])

\* a message has come through all of its processing while another of the batch
\* has not been looked at, and nothing has been handed on
C28_Witness ==
    /\ RespActive
    /\ Len(Batch) = MaxResp
    /\ Status(MaxResp) = "Ok"
    /\ Status(1) = "pending"
    /\ next_service[Receiver] = <<>>

\* C29: every message the next service was called with has the header and the
\* encrypted body of one stored message of the batch, and as its body what
\* try_decrypt makes of that encrypted body under that header
C29_HeaderBodyPairing ==
    RespActive =>
        \A j \in Calls :
            LET request == next_service[Receiver][j].request
            IN \E i \in OkIdx :
                  /\ request.dht_header = Hdr(Batch[i])
                  /\ request.encrypted_body = Batch[i].encrypted_body
                  /\ Some(request.decrypted_body) =
                        try_decrypt(NodeIdentity(Receiver), Hdr(Batch[i]), Batch[i].encrypted_body)
                  /\ signature_verify(request.dht_header.origin_public_key,
                                      request.dht_header.origin_signature,
                                      request.encrypted_body) = "true"

\* two messages with different bodies were handed on, the second of the batch
\* having been decrypted while the first was still waiting for its decryption
C29_Witness ==
    /\ RespDone
    /\ Len(Batch) = MaxResp
    /\ OkIdx = BatchIdx
    /\ Batch[1].encrypted_body # Batch[MaxResp].encrypted_body
    /\ Len(next_service[Receiver]) = MaxResp
    /\ next_service[Receiver][1].request.decrypted_body
           # next_service[Receiver][MaxResp].request.decrypted_body

\* the classes of section 7 of the specification
Benign == {"DecryptionFailed", "PeerNotFoundError", "DuplicateMessage"}
Malfunction == {"DhtActorError"}
Classified(status) ==
    IF status \in Benign THEN "debug"
    ELSE IF status \in Malfunction THEN "error"
    ELSE IF status = "Ok" THEN "none"
    ELSE "warn_security"

\* C30: the finished handler has logged each failed stored message by its error
\* alone: DecryptionFailed, PeerNotFoundError and DuplicateMessage at debug level,
\* DhtActorError as an error, every other error as a security warning about the
\* sending peer; and what was handed on are the messages that returned Ok,
\* whatever was logged about the others
C30_FailureClassification ==
    RespDone =>
        /\ Len(RespTask.logs) = Len(Batch)
        /\ \A i \in BatchIdx : RespTask.logs[i] = Classified(Status(i))
        /\ \A i, j \in BatchIdx : Status(i) = Status(j) => RespTask.logs[i] = RespTask.logs[j]
        /\ Len(next_service[Receiver]) = Cardinality(OkIdx)
        /\ \A i \in OkIdx : Forwards(Receiver, Batch[i]) # {}
        /\ \A j \in Calls : \E i \in OkIdx : j \in Forwards(Receiver, Batch[i])

\* a local malfunction next to a protocol violation, in one batch
C30_Witness ==
    /\ RespDone
    /\ Len(Batch) = MaxResp
    /\ Status(1) = "DhtActorError" /\ RespTask.logs[1] = "error"
    /\ Status(MaxResp) = "StoredMessageNotEncrypted" /\ RespTask.logs[MaxResp] = "warn_security"

(***************************************************************************)
(* Properties of run(), read off the holder's finished task.               *)
(***************************************************************************)
RunTask == Unwrap(task["t1"])
\* run() has returned for a message of the given type
Ran(message_type) ==
    /\ IsDone("t1")
    /\ RunTask.node = Holder
    /\ RunTask.message.message_type = message_type
\* nothing but a response to the source of the message is on the outbound channel
OnlyAResponse ==
    /\ Len(outbound[Holder]) <= 1
    /\ \A j \in 1 .. Len(outbound[Holder]) :
          /\ outbound[Holder][j].message_type = SafStoredMessages
          /\ outbound[Holder][j].body.kind = "StoredMessagesResponse"
          /\ outbound[Holder][j].broadcast_strategy = DirectPublicKey(RunTask.message.source_peer.public_key)

\* C19: when run() has returned for a SafRequestMessages message, whatever the store
\* holds, whether the message decrypted and decoded and whatever the region check said,
\* the next service has not been called, and the outbound channel holds nothing or the
\* one response
C19_RequestNotPassedOn ==
    Ran(SafRequestMessages) => (next_service[Holder] = <<>> /\ OnlyAResponse)

\* an answered request, next to which the next service was left alone
C19_Witness ==
    /\ Ran(SafRequestMessages)
    /\ RunTask.result = "Ok"
    /\ Len(outbound[Holder]) = 1
    /\ outbound[Holder][1].body.messages # <<>>
    /\ next_service[Holder] = <<>>

\* run() has returned for a SafRequestMessages message that decrypted and whose
\* payload is absent or does not decode as a StoredMessagesRequest
MalformedRequest ==
    /\ Ran(SafRequestMessages)
    /\ ~RunTask.message.decryption_failed
    /\ RunTask.message.body.kind # "StoredMessagesRequest"

\* C21: a request whose payload is absent ends with InvalidEnvelopeBody and one whose
\* payload does not decode with the decode error; for both the handler has called
\* neither the peer manager (no region check) nor the store nor the outbound
\* service, and nothing is on the outbound channel nor with the next service
C21_MalformedRequest ==
    MalformedRequest =>
        /\ RunTask.result =
              (IF RunTask.message.body = Undecodable THEN "DecodeError" ELSE "InvalidEnvelopeBody")
        /\ RunTask.calls = {}
        /\ RunTask.region_err = {}
        /\ outbound[Holder] = <<>>
        /\ next_service[Holder] = <<>>

\* a request without a payload, from a peer in the region for which the store of
\* the holder has a message
C21_Witness ==
    /\ MalformedRequest
    /\ RunTask.message.body = NoPart
    /\ RunTask.message.source_peer = Peer(Receiver)
    /\ RunTask.config.saf_max_returned_messages > 0
    /\ \E j \in 1 .. Len(store[Holder]) :
          store[Holder][j].value \in {WellFormed(Origin, Receiver, p, ReceiverId) : p \in EnvelopeBodies}

\* the region query of the handled request failed
RegionQueryFailed == ReqHandled /\ ReqTask.region_err # {}

\* C20, as stated: a request whose region query fails is handled exactly like one from
\* a source outside the region: nothing is sent and run() returns without an error
C20_AsStated ==
    RegionQueryFailed => (outbound[Holder] = <<>> /\ ReqTask.result = "Ok")

\* the query fails for a source that is in the region and has messages waiting:
\* nothing is sent, and the error of the query is what run() returns
C20_Witness ==
    /\ RegionQueryFailed
    /\ RegionSays(Holder, ReqSource, ReqTask.config) = "true"
    /\ ReqMax > 0 /\ PassIdx # {}
    /\ outbound[Holder] = <<>>
    /\ ReqTask.result = "PeerManagerError"

(***************************************************************************)
(* Properties of the inbound message service's run loop.                   *)
(***************************************************************************)
Terminated == service.pc = "terminated"
InFlight == service.inbound_message # None
\* process_message returns in this step: from its checks, or from the send
Returns ==
    \/ /\ service.pc = "select"
       /\ service'.raw_message_stream # service.raw_message_stream
       /\ Len(service'.raw_message_stream) < Len(service.raw_message_stream)
       /\ service'.inbound_message = None
    \/ /\ service.pc = "send"
       /\ service'.inbound_message = None
ProcessErrors ==
    {"DeserializationError", "MessageError", "InvalidMessageSignature",
     "DuplicateMessageDiscarded", "CannotFindSourcePeer", "SendError"}

\* C24: once the shutdown signal has fired the run loop terminates, under the fair
\* scheduling of the loop, of the sink and of select!; and once it has terminated
\* no frame set is taken from the raw message stream, nothing is put into the sink
\* and the message cache stays as it is
C24_Shutdown ==
    /\ service.shutdown_signal ~> Terminated
    /\ [][Terminated =>
            /\ Terminated'
            /\ service'.raw_message_stream = service.raw_message_stream
            /\ Len(service'.message_sink) <= Len(service.message_sink)
            /\ service'.message_cache = service.message_cache]_vars
\* the loop has terminated with frame sets left in the stream
C24_Witness ==
    /\ Terminated
    /\ service.raw_message_stream # <<>>
    /\ service.message_sink # <<>>

\* C25: when process_message returns an error the error is logged and the run loop
\* goes back to select!, where the next frame set can be taken; the loop ends only
\* from select! with the shutdown signal fired, never on a processing error
C25_RunLoopResilience ==
    /\ [](service.log \subseteq ProcessErrors)
    /\ []((service.pc = "select" /\ service.raw_message_stream # <<>>) => ENABLED SelectNextSome)
    /\ [][/\ (Returns /\ service'.last # "Ok") =>
              /\ service'.last \in ProcessErrors
              /\ service'.last \in service'.log
              /\ service'.pc = "select"
          /\ (~Terminated /\ Terminated') =>
              /\ service.shutdown_signal
              /\ service.pc = "select"
              /\ ~Returns]_vars
\* every error of the checks has been logged, and a frame set taken after that
\* has reached the sink
C25_Witness ==
    /\ service.log = ProcessErrors \ {"SendError"}
    /\ service.last = "Ok"
    /\ service.message_sink # <<>>
    /\ ~Terminated

\* C27: the run loop ends only between two process_message calls: a call that has
\* started returns before the loop exits, whenever the shutdown signal fires, so at
\* the exit no message is half-way: every signature that was let into the message
\* cache has had its peer lookup and its send
C27_InFlightCompletes ==
    /\ [](Terminated => ~InFlight)
    /\ [](InFlight <=> service.pc = "send")
    /\ [][/\ service.pc = "send" => service'.pc \in {"send", "select"}
          /\ (~Terminated /\ Terminated') =>
              (service.pc = "select" /\ service'.message_cache = service.message_cache)]_vars
\* the signal fired while process_message was sending; the send has returned and
\* the loop has ended after it
C27_Witness ==
    /\ Terminated
    /\ service.fired_at = "send"
    /\ service.last = "Ok"
    /\ service.message_sink # <<>>

(***************************************************************************)
(* Properties of the latency samples.                                      *)
(***************************************************************************)
LastSample == average_latency.samples[Len(average_latency.samples)]
Added == average_latency.sample # None

\* C32, as stated: the sample recorded for a Duration is its number of milliseconds
\* capped at u32::MAX: u32::MAX for every Duration longer than that
C32_AsStated ==
    Added => LastSample = Min(Unwrap(average_latency.sample), U32_MAX)

\* the Duration one millisecond longer than u32::MAX was added and the recorded
\* sample is 0
C32_Witness ==
    /\ Added
    /\ Unwrap(average_latency.sample) = U32_MAX + 1
    /\ LastSample = 0

(***************************************************************************)
(* Properties of process_message, read off the step that takes a frame set *)
(* from the stream and the step in which the send into the sink returns.   *)
(***************************************************************************)
HeadFrame == Head(service.raw_message_stream)
HeadSignature == Unwrap(HeadFrame.message_envelope_header).message_signature
\* the frame set at the head of the stream passes the signature check
HeadVerified ==
    /\ HeadFrame.message_envelope_header # None
    /\ verify_signature(Unwrap(HeadFrame.message_envelope_header), HeadFrame.body_frame) = "true"
HeadKnown == \E p \in peer_manager[Holder] : NodeIdOf(p) = HeadFrame.source_node_id
\* this step takes the frame set at the head of the stream
Takes ==
    /\ service.pc = "select"
    /\ service.raw_message_stream # <<>>
    /\ service'.raw_message_stream = Tail(service.raw_message_stream)
\* this step puts a message into the sink
Delivers == Len(service'.message_sink) > Len(service.message_sink)
Rejected(error) ==
    /\ service'.last = error
    /\ error \in service'.log
    /\ service'.inbound_message = None
    /\ service'.message_sink = service.message_sink

\* C31: between two expiries of the message cache no signature passes the cache
\* check twice, and only a message that passed it is put into the sink, once; a
\* frame set whose signature is in the cache is rejected with
\* DuplicateMessageDiscarded and leaves the sink and the cache as they are
C31_InboundDedup ==
    /\ [](\A i, j \in 1 .. Len(service.passed) : service.passed[i] = service.passed[j] => i = j)
    /\ [][/\ (Takes /\ HeadVerified /\ HeadSignature \in service.message_cache) =>
               /\ Rejected("DuplicateMessageDiscarded")
               /\ service'.message_cache = service.message_cache
          /\ (Takes /\ service'.inbound_message # None) =>
               /\ HeadSignature \notin service.message_cache
               /\ HeadSignature \in service'.message_cache
          /\ Delivers =>
               /\ service.inbound_message # None
               /\ service'.inbound_message = None
               /\ service'.message_sink =
                      Append(service.message_sink, Unwrap(service.inbound_message))]_vars
\* the message is in the sink and its copy was rejected
C31_Witness ==
    /\ service.last = "DuplicateMessageDiscarded"
    /\ service.last_known
    /\ service.passed = <<InboundSignature>>
    /\ service.message_sink # <<>>
    /\ service.message_sink[1].envelope_header.message_signature = InboundSignature

\* C40: a frame set that passes the signature check, with a signature that is not
\* cached, from a source the peer manager does not know is rejected with
\* CannotFindSourcePeer and its signature is in the cache afterwards; a frame set
\* with a cached signature is rejected as a duplicate also when its source is
\* known by now; a frame set that fails the signature check leaves the cache as it is
C40_CachedBeforePeerLookup ==
    [][/\ (Takes /\ HeadVerified /\ HeadSignature \notin service.message_cache /\ ~HeadKnown) =>
              /\ Rejected("CannotFindSourcePeer")
              /\ service'.message_cache = service.message_cache \cup {HeadSignature}
       /\ (Takes /\ HeadVerified /\ HeadSignature \in service.message_cache /\ HeadKnown) =>
              Rejected("DuplicateMessageDiscarded")
       /\ (Takes /\ ~HeadVerified) =>
              /\ service'.message_cache = service.message_cache
              /\ service'.inbound_message = None
              /\ service'.message_sink = service.message_sink]_vars
\* the only signature in the cache is one that did not get past the peer lookup;
\* its copy came after the peer had become known and was rejected as a duplicate
C40_Witness ==
    /\ service.last = "DuplicateMessageDiscarded"
    /\ service.last_known
    /\ "CannotFindSourcePeer" \in service.log
    /\ service.passed = <<>>
    /\ service.message_cache = {InboundSignature}
    /\ service.message_sink = <<>>

(***************************************************************************)
(* Properties of run() read off the step that leaves its entry.            *)
(***************************************************************************)
\* this step is the one in which run() of the holder's task takes its message
Runs ==
    /\ task["t1"] # None /\ task'["t1"] # None
    /\ RunTask.node = Holder
    /\ RunTask.pc = "new"
    /\ Unwrap(task'["t1"]).pc # "new"
NotSaf == RunTask.message.message_type \notin {SafRequestMessages, SafStoredMessages}
Undecrypted == is_dht_message(RunTask.message.message_type) /\ RunTask.message.decryption_failed
\* the step hands the message over to the next service, returns what that returns
\* and does nothing else
PassedOn ==
    /\ Len(next_service'[Holder]) = Len(next_service[Holder]) + 1
    /\ SubSeq(next_service'[Holder], 1, Len(next_service[Holder])) = next_service[Holder]
    /\ next_service'[Holder][Len(next_service'[Holder])].request = RunTask.message
    /\ Unwrap(task'["t1"]).pc = "done"
    /\ Unwrap(task'["t1"]).result =
          (IF next_service'[Holder][Len(next_service'[Holder])].ok THEN "Ok" ELSE "MiddlewareError")
    /\ Unwrap(task'["t1"]).calls = {}
    /\ Unwrap(task'["t1"]).message = RunTask.message
    /\ UNCHANGED <<store, signatures, outbound, peer_manager>>

C34_UndecryptedDiscarded ==
    /\ [][(Runs /\ Undecrypted) =>
              /\ Unwrap(task'["t1"]).pc = "done"
              /\ Unwrap(task'["t1"]).result = "Ok"
              /\ Unwrap(task'["t1"]).calls = {}
              /\ Unwrap(task'["t1"]).region_err = {}
              /\ Unwrap(task'["t1"]).results = RunTask.results
              /\ UNCHANGED <<store, signatures, outbound, next_service, peer_manager>>]_vars
    /\ [](\A t \in TaskIds :
            (task[t] # None /\ (Unwrap(task[t]).pc \notin {"new", "done"} \/ Unwrap(task[t]).calls # {})) =>
                ~(is_dht_message(Unwrap(task[t]).message.message_type)
                    /\ Unwrap(task[t]).message.decryption_failed))
\* a request of a peer in the region, with messages waiting for it, that did not
\* decrypt: run() returned Ok and nothing was sent
C34_Witness ==
    /\ Ran(SafRequestMessages)
    /\ RunTask.message.decryption_failed
    /\ RunTask.message.body.kind = "StoredMessagesRequest"
    /\ RunTask.message.source_peer = Peer(Receiver)
    /\ RunTask.config.saf_max_returned_messages > 0
    /\ RunTask.result = "Ok"
    /\ RunTask.calls = {}
    /\ outbound[Holder] = <<>>
    /\ next_service[Holder] = <<>>
    /\ \E j \in 1 .. Len(store[Holder]) :
          store[Holder][j].value \in {WellFormed(Origin, Receiver, p, ReceiverId) : p \in EnvelopeBodies}

(***************************************************************************)
(* The dedup record and the checks that come before the duplicate check.   *)
(***************************************************************************)
EarlyErrors ==
    {"DhtHeaderNotProvided", "DhtMessageError", "InvalidDestination", "InvalidSignature",
     "StoredMessageNotEncrypted"}
\* the header, destination, signature or flag check rejects message i of task t
FailsEarly(t, i) ==
    LET k == Unwrap(task[t])
    IN header_checks(k.config, [known |-> peer_manager[k.node], failing |-> FALSE],
                     NodeIdentity(k.node), k.message.body.messages[i]) \in EarlyErrors
\* this step is process_incoming_stored_message of message i of task t, up to
\* its error or to the answer of the DHT actor
Checks(t, i) ==
    /\ task[t] # None /\ task'[t] # None
    /\ i \in 1 .. Len(Unwrap(task[t]).results)
    /\ Unwrap(task[t]).results[i] = Pending
    /\ Unwrap(task'[t]).results[i] # Pending
OriginSignature(t, i) == Unwrap(Unwrap(task[t]).message.body.messages[i].dht_header).origin_signature

\* C35: a recovered message rejected by the header, destination, signature or flag
\* check ends with that error without a call to the DHT actor and with the dedup
\* record as it was; the record grows only by the signature of a message that
\* passed these checks; and a message that passed them, whose signature is not
\* in the record, is treated as new
C35_EarlyFailuresLeaveDedup ==
    [][\A t \in TaskIds, i \in 1 .. MaxResp :
          /\ (Checks(t, i) /\ FailsEarly(t, i)) =>
                 /\ Unwrap(task'[t]).results[i].status \in EarlyErrors
                 /\ Unwrap(task'[t]).actor_calls = Unwrap(task[t]).actor_calls
                 /\ signatures' = signatures
          /\ (Checks(t, i) /\ signatures' # signatures) =>
                 /\ ~FailsEarly(t, i)
                 /\ signatures' = [signatures EXCEPT ![Unwrap(task[t]).node] = @ \cup {OriginSignature(t, i)}]
          /\ (Checks(t, i) /\ ~FailsEarly(t, i)
                /\ Unwrap(task'[t]).actor_calls > Unwrap(task[t]).actor_calls
                /\ Unwrap(task'[t]).results[i].status # "DhtActorError"
                /\ OriginSignature(t, i) \notin signatures[Unwrap(task[t]).node]) =>
                 Unwrap(task'[t]).results[i] = Checked]_vars
\* a message without the ENCRYPTED flag and a valid message with the same
\* signature in one batch: the first was rejected, the second forwarded
C35_Witness ==
    /\ task["t2"] # None
    /\ LET k == Unwrap(task["t2"])
       IN /\ k.pc = "done"
          /\ Len(k.results) = 2
          /\ k.message.body.messages[2] = WellFormed(Origin, Receiver, 1, ReceiverId)
          /\ k.message.body.messages[1].dht_header # None
          /\ Unwrap(k.message.body.messages[1].dht_header).origin_signature =
                Unwrap(k.message.body.messages[2].dht_header).origin_signature
          /\ k.results[1].status = "StoredMessageNotEncrypted"
          /\ k.results[2].status = "Ok"
          /\ k.actor_calls = 1
          /\ Len(next_service[Receiver]) = 1
          /\ next_service[Receiver][1].request = Unwrap(k.results[2].msg)

(***************************************************************************)
(* The dedup record and the steps that come after the duplicate check.     *)
(***************************************************************************)
\* this step is process_incoming_stored_message of message i of task t from the
\* decryption on, and it fails
FailsLate(t, i) ==
    /\ task[t] # None /\ task'[t] # None
    /\ i \in 1 .. Len(Unwrap(task[t]).results)
    /\ Unwrap(task[t]).results[i] = Checked
    /\ Unwrap(task'[t]).results[i].status \in {"DecryptionFailed", "PeerNotFoundError"}
\* the messages the next service of the receiver has been called with carry sig
Forwarded(sig) ==
    \E j \in 1 .. Len(next_service[Receiver]) :
        next_service[Receiver][j].request.dht_header.origin_signature = sig
\* sig is in the dedup record of the receiver, no message with it is past the
\* duplicate check and still in progress or recovered, and none was forwarded
Lost(sig) ==
    /\ sig \in signatures[Receiver]
    /\ ~Forwarded(sig)
    /\ \A t \in TaskIds : task[t] # None =>
          \A i \in 1 .. Len(Unwrap(task[t]).results) :
              Unwrap(task[t]).results[i].status \in {"checked", "Ok"} => OriginSignature(t, i) # sig
LateSignatures == {Unwrap(m.dht_header).origin_signature : m \in LateStoredMessages}

\* C36: a message that passed the duplicate check and then fails decryption or
\* the lookup of its origin leaves its signature in the dedup record; a copy
\* that comes to the duplicate check while the signature is recorded ends with
\* DuplicateMessage, whether or not its origin is known by then; so once recorded
\* and lost, the signature stays lost: no message with it is forwarded
C36_RecordedBeforeDecryption ==
    [][/\ \A t \in TaskIds, i \in 1 .. MaxResp :
             /\ FailsLate(t, i) =>
                    /\ signatures' = signatures
                    /\ Lost(OriginSignature(t, i))'
             /\ (Checks(t, i) /\ ~FailsEarly(t, i)
                    /\ OriginSignature(t, i) \in signatures[Unwrap(task[t]).node]) =>
                    Unwrap(task'[t]).results[i].status = "DuplicateMessage"
       /\ \A sig \in LateSignatures : Lost(sig) => Lost(sig)']_vars
\* the origin of a lost message is known by now, and a copy of the message that
\* came to the duplicate check after that was dropped as a duplicate
C36_Witness ==
    /\ task["t2"] # None
    /\ Stranger \in peer_manager[Receiver]
    /\ Lost(sign(Stranger, Sealed(Stranger, Receiver, 1)))
    /\ next_service[Receiver] = <<>>
    /\ \E i \in 1 .. Len(Unwrap(task["t2"]).results) :
          /\ Unwrap(task["t2"]).message.body.messages[i] = WellFormed(Stranger, Receiver, 1, ReceiverId)
          /\ Unwrap(task["t2"]).results[i].status = "DuplicateMessage"
          /\ i \in Unwrap(task["t2"]).known_at_check

(***************************************************************************)
(* More properties of the request handler.                                 *)
(***************************************************************************)
\* this step is run() of the holder's task on a SafRequestMessages message
ServesRequest ==
    /\ task["t1"] # None /\ task'["t1"] # None
    /\ ReqTask.node = Holder
    /\ ReqTask.pc = "new"
    /\ Unwrap(task'["t1"]).pc = "done"
    /\ ReqTask.message.message_type = SafRequestMessages
\* what the step has put on the outbound channel
SentNow == SubSeq(outbound'[Holder], Len(outbound[Holder]) + 1, Len(outbound'[Holder]))

C38_MissingStoredAt ==
    ReqAnswered =>
        \A i \in HeldIdx :
            Held(i).stored_at = None =>
                /\ ReqSince # None => ~InResp(Held(i))
                /\ (ReqSince = None /\ i \in PassIdx /\ Rank(i) <= ReqMax) => InResp(Held(i))
\* a request with since = 0 over a store with a message without stored_at and,
\* after it, one stored at 0, both for anyone: the response has the second only
C38_Witness ==
    /\ ReqAnswered
    /\ ReqSince = Some(0)
    /\ ReqMax = 1
    /\ Len(store[Holder]) = 2
    /\ Held(1) = StoredMessage(ReqHeader(Some(DestUnknown)), Sealed(Origin, Receiver, 1), None)
    /\ Held(2) = StoredMessage(ReqHeader(Some(DestUnknown)), Sealed(Origin, Receiver, 1), Some(0))
    /\ Resp = <<Held(2)>>

\* the handled request decoded and came from a source in the region
InRegionRequest ==
    /\ ReqHandled
    /\ ReqTask.region_err = {}
    /\ RegionSays(Holder, ReqSource, ReqTask.config) = "true"

====
